---- MODULE Spec2Model ----
(***************************************************************************)
(* ComplyPilot backend (backend/server.py): the compliance scoring engine  *)
(* (submit_health_check) and the risk register manager                     *)
(* (generate_risk_register, update_risk) as state machines over the        *)
(* document store.  Every store operation the handlers await is one atomic *)
(* step; the code a handler runs between two awaits is part of the step    *)
(* that ends at the next await.                                            *)
(***************************************************************************)
EXTENDS Integers, Sequences, FiniteSets, TLC

(* Python's None, for the optional string fields (notes, owner, industry). *)
None == "None"

(***************************************************************************)
(* Static data: the question catalog and the risk templates, copied from   *)
(* the literals of server.py.                                              *)
(***************************************************************************)
GDPR_QUESTIONS ==
  << [id |-> "gdpr_1",
      category |-> "GDPR",
      subcategory |-> "Data Inventory",
      question |-> "Do you maintain a record of all personal data you collect and process?",
      weight |-> 3,
      guidance |-> "Article 30 of GDPR requires maintaining records of processing activities."],
     [id |-> "gdpr_2",
      category |-> "GDPR",
      subcategory |-> "Lawful Basis",
      question |-> "Have you identified and documented a lawful basis for each processing activity?",
      weight |-> 3,
      guidance |-> "You must have a valid lawful basis under Article 6 for processing personal data."],
     [id |-> "gdpr_3",
      category |-> "GDPR",
      subcategory |-> "Privacy Notice",
      question |-> "Do you have a clear, accessible privacy notice that explains how you use personal data?",
      weight |-> 2,
      guidance |-> "Articles 13-14 require transparent communication about data processing."],
     [id |-> "gdpr_4",
      category |-> "GDPR",
      subcategory |-> "Consent",
      question |-> "Where you rely on consent, can individuals easily withdraw it?",
      weight |-> 2,
      guidance |-> "Consent must be freely given, specific, informed, and unambiguous."],
     [id |-> "gdpr_5",
      category |-> "GDPR",
      subcategory |-> "Data Subject Rights",
      question |-> "Do you have procedures to respond to data subject access requests within 30 days?",
      weight |-> 3,
      guidance |-> "Individuals have the right to access their personal data under Article 15."],
     [id |-> "gdpr_6",
      category |-> "GDPR",
      subcategory |-> "Data Subject Rights",
      question |-> "Can you fulfil requests to erase personal data (right to be forgotten)?",
      weight |-> 2,
      guidance |-> "Article 17 gives individuals the right to erasure in certain circumstances."],
     [id |-> "gdpr_7",
      category |-> "GDPR",
      subcategory |-> "Data Retention",
      question |-> "Do you have a data retention policy specifying how long you keep personal data?",
      weight |-> 2,
      guidance |-> "Personal data should not be kept longer than necessary for the purposes for which it is processed."],
     [id |-> "gdpr_8",
      category |-> "GDPR",
      subcategory |-> "Data Security",
      question |-> "Have you implemented appropriate technical measures to protect personal data?",
      weight |-> 3,
      guidance |-> "Article 32 requires implementing appropriate technical and organisational security measures."],
     [id |-> "gdpr_9",
      category |-> "GDPR",
      subcategory |-> "Data Security",
      question |-> "Do you encrypt personal data in transit and at rest?",
      weight |-> 2,
      guidance |-> "Encryption is a recommended security measure under GDPR."],
     [id |-> "gdpr_10",
      category |-> "GDPR",
      subcategory |-> "Breach Response",
      question |-> "Do you have a data breach response procedure in place?",
      weight |-> 3,
      guidance |-> "You must report certain breaches to the ICO within 72 hours under Article 33."],
     [id |-> "gdpr_11",
      category |-> "GDPR",
      subcategory |-> "DPO",
      question |-> "Have you assessed whether you need to appoint a Data Protection Officer?",
      weight |-> 1,
      guidance |-> "Article 37 specifies when a DPO is required."],
     [id |-> "gdpr_12",
      category |-> "GDPR",
      subcategory |-> "International Transfers",
      question |-> "Do you have appropriate safeguards for transferring personal data outside the UK?",
      weight |-> 2,
      guidance |-> "International transfers require adequate protection mechanisms."],
     [id |-> "gdpr_13",
      category |-> "GDPR",
      subcategory |-> "Staff Training",
      question |-> "Do all staff who handle personal data receive data protection training?",
      weight |-> 2,
      guidance |-> "Staff awareness is a key organisational measure for compliance."],
     [id |-> "gdpr_14",
      category |-> "GDPR",
      subcategory |-> "Third Parties",
      question |-> "Do you have written contracts with all processors who handle personal data on your behalf?",
      weight |-> 3,
      guidance |-> "Article 28 requires contracts with data processors specifying processing terms."],
     [id |-> "gdpr_15",
      category |-> "GDPR",
      subcategory |-> "DPIA",
      question |-> "Do you conduct Data Protection Impact Assessments for high-risk processing?",
      weight |-> 2,
      guidance |-> "DPIAs are required under Article 35 for processing likely to result in high risk."] >>

CYBER_ESSENTIALS_QUESTIONS ==
  << [id |-> "ce_1",
      category |-> "Cyber Essentials",
      subcategory |-> "Firewalls",
      question |-> "Do you have a properly configured firewall protecting your network boundary?",
      weight |-> 3,
      guidance |-> "Firewalls are the first line of defence against network attacks."],
     [id |-> "ce_2",
      category |-> "Cyber Essentials",
      subcategory |-> "Firewalls",
      question |-> "Are all firewall rules documented and reviewed regularly?",
      weight |-> 2,
      guidance |-> "Regular reviews ensure firewall rules remain appropriate and secure."],
     [id |-> "ce_3",
      category |-> "Cyber Essentials",
      subcategory |-> "Secure Configuration",
      question |-> "Do you remove or disable unnecessary user accounts?",
      weight |-> 2,
      guidance |-> "Reducing attack surface by removing unused accounts."],
     [id |-> "ce_4",
      category |-> "Cyber Essentials",
      subcategory |-> "Secure Configuration",
      question |-> "Do you change default passwords on all devices and software?",
      weight |-> 3,
      guidance |-> "Default credentials are a common attack vector."],
     [id |-> "ce_5",
      category |-> "Cyber Essentials",
      subcategory |-> "Secure Configuration",
      question |-> "Is auto-run disabled for media and network drives?",
      weight |-> 2,
      guidance |-> "Prevents automatic execution of malicious code."],
     [id |-> "ce_6",
      category |-> "Cyber Essentials",
      subcategory |-> "Access Control",
      question |-> "Do users only have access to the data and systems they need for their role?",
      weight |-> 3,
      guidance |-> "Principle of least privilege reduces risk of data breaches."],
     [id |-> "ce_7",
      category |-> "Cyber Essentials",
      subcategory |-> "Access Control",
      question |-> "Do you use multi-factor authentication for accessing cloud services?",
      weight |-> 3,
      guidance |-> "MFA significantly reduces the risk of account compromise."],
     [id |-> "ce_8",
      category |-> "Cyber Essentials",
      subcategory |-> "Access Control",
      question |-> "Are administrator accounts separate from normal user accounts?",
      weight |-> 2,
      guidance |-> "Separation prevents privilege escalation attacks."],
     [id |-> "ce_9",
      category |-> "Cyber Essentials",
      subcategory |-> "Malware Protection",
      question |-> "Is anti-malware software installed on all devices?",
      weight |-> 3,
      guidance |-> "Essential protection against viruses and malware."],
     [id |-> "ce_10",
      category |-> "Cyber Essentials",
      subcategory |-> "Malware Protection",
      question |-> "Is your anti-malware software set to update automatically?",
      weight |-> 2,
      guidance |-> "Regular updates ensure protection against new threats."],
     [id |-> "ce_11",
      category |-> "Cyber Essentials",
      subcategory |-> "Malware Protection",
      question |-> "Is your anti-malware software configured to scan files automatically?",
      weight |-> 2,
      guidance |-> "Automatic scanning catches threats before they execute."],
     [id |-> "ce_12",
      category |-> "Cyber Essentials",
      subcategory |-> "Patch Management",
      question |-> "Are operating systems set to update automatically?",
      weight |-> 3,
      guidance |-> "Patching fixes known vulnerabilities that attackers exploit."],
     [id |-> "ce_13",
      category |-> "Cyber Essentials",
      subcategory |-> "Patch Management",
      question |-> "Do you apply high-risk security patches within 14 days of release?",
      weight |-> 3,
      guidance |-> "Timely patching is critical for preventing exploitation."],
     [id |-> "ce_14",
      category |-> "Cyber Essentials",
      subcategory |-> "Patch Management",
      question |-> "Do you remove unsupported software from your systems?",
      weight |-> 2,
      guidance |-> "Unsupported software no longer receives security updates."],
     [id |-> "ce_15",
      category |-> "Cyber Essentials",
      subcategory |-> "Password Policy",
      question |-> "Do you enforce a minimum password length of at least 12 characters?",
      weight |-> 2,
      guidance |-> "Longer passwords are significantly harder to crack."] >>

ALL_QUESTIONS == GDPR_QUESTIONS \o CYBER_ESSENTIALS_QUESTIONS

RISK_TEMPLATE_KEYS ==
  {"retail", "professional_services", "healthcare", "technology", "manufacturing", "general"}

RISK_TEMPLATES ==
  [key \in RISK_TEMPLATE_KEYS |->
     IF key = "retail" THEN
       << [risk_id |-> "retail_1",
           title |-> "Customer Payment Data Breach",
           description |-> "Unauthorised access to stored payment card details",
           likelihood |-> "medium",
           impact |-> "high",
           category |-> "Data Security",
           mitigation |-> "Implement PCI DSS compliance measures, tokenise card data"],
          [risk_id |-> "retail_2",
           title |-> "E-commerce Platform Vulnerability",
           description |-> "Security vulnerabilities in online shopping systems",
           likelihood |-> "medium",
           impact |-> "high",
           category |-> "Cyber Security",
           mitigation |-> "Regular security testing, WAF implementation, secure coding practices"],
          [risk_id |-> "retail_3",
           title |-> "Customer Data Marketing Misuse",
           description |-> "Using customer data for marketing without proper consent",
           likelihood |-> "high",
           impact |-> "medium",
           category |-> "GDPR Compliance",
           mitigation |-> "Implement consent management platform, review marketing permissions"],
          [risk_id |-> "retail_4",
           title |-> "Third-Party Delivery Partner Data Sharing",
           description |-> "Inadequate data protection with delivery partners",
           likelihood |-> "medium",
           impact |-> "medium",
           category |-> "Third Party Risk",
           mitigation |-> "Review contracts, implement data processing agreements"],
          [risk_id |-> "retail_5",
           title |-> "Point of Sale System Compromise",
           description |-> "Malware infection on POS systems",
           likelihood |-> "medium",
           impact |-> "high",
           category |-> "Cyber Security",
           mitigation |-> "POS system hardening, network segmentation, regular scanning"] >>
     ELSE IF key = "professional_services" THEN
       << [risk_id |-> "ps_1",
           title |-> "Client Confidentiality Breach",
           description |-> "Unauthorised disclosure of sensitive client information",
           likelihood |-> "medium",
           impact |-> "high",
           category |-> "Data Security",
           mitigation |-> "Access controls, encryption, staff training on confidentiality"],
          [risk_id |-> "ps_2",
           title |-> "Email Phishing Attack",
           description |-> "Staff falling victim to sophisticated phishing attempts",
           likelihood |-> "high",
           impact |-> "high",
           category |-> "Cyber Security",
           mitigation |-> "Phishing awareness training, email filtering, MFA enforcement"],
          [risk_id |-> "ps_3",
           title |-> "Document Retention Non-Compliance",
           description |-> "Retaining client documents beyond legal requirements",
           likelihood |-> "high",
           impact |-> "medium",
           category |-> "GDPR Compliance",
           mitigation |-> "Implement retention schedules, automated deletion, regular audits"],
          [risk_id |-> "ps_4",
           title |-> "Remote Working Data Exposure",
           description |-> "Data leakage through insecure remote working practices",
           likelihood |-> "high",
           impact |-> "medium",
           category |-> "Cyber Security",
           mitigation |-> "VPN usage, device encryption, secure file sharing policies"],
          [risk_id |-> "ps_5",
           title |-> "Subcontractor Data Handling",
           description |-> "Inadequate data protection by subcontracted parties",
           likelihood |-> "medium",
           impact |-> "medium",
           category |-> "Third Party Risk",
           mitigation |-> "Due diligence, contractual obligations, periodic audits"] >>
     ELSE IF key = "healthcare" THEN
       << [risk_id |-> "hc_1",
           title |-> "Patient Record Breach",
           description |-> "Unauthorised access to sensitive health records",
           likelihood |-> "medium",
           impact |-> "high",
           category |-> "Data Security",
           mitigation |-> "Role-based access, audit logging, encryption"],
          [risk_id |-> "hc_2",
           title |-> "Medical Device Vulnerability",
           description |-> "Security flaws in connected medical equipment",
           likelihood |-> "medium",
           impact |-> "high",
           category |-> "Cyber Security",
           mitigation |-> "Device inventory, network segmentation, patch management"],
          [risk_id |-> "hc_3",
           title |-> "Special Category Data Mishandling",
           description |-> "Processing health data without appropriate safeguards",
           likelihood |-> "medium",
           impact |-> "high",
           category |-> "GDPR Compliance",
           mitigation |-> "Article 9 compliance review, DPIA for processing activities"],
          [risk_id |-> "hc_4",
           title |-> "Ransomware Attack",
           description |-> "Encryption of patient records by malicious actors",
           likelihood |-> "high",
           impact |-> "high",
           category |-> "Cyber Security",
           mitigation |-> "Offline backups, endpoint protection, incident response plan"],
          [risk_id |-> "hc_5",
           title |-> "Consent Management Failure",
           description |-> "Processing patient data without valid consent",
           likelihood |-> "medium",
           impact |-> "medium",
           category |-> "GDPR Compliance",
           mitigation |-> "Consent audit, digital consent capture, staff training"] >>
     ELSE IF key = "technology" THEN
       << [risk_id |-> "tech_1",
           title |-> "Source Code Theft",
           description |-> "Unauthorised access to proprietary software code",
           likelihood |-> "medium",
           impact |-> "high",
           category |-> "Data Security",
           mitigation |-> "Code repository security, access controls, DLP solutions"],
          [risk_id |-> "tech_2",
           title |-> "Cloud Infrastructure Misconfiguration",
           description |-> "Security gaps in cloud service setup",
           likelihood |-> "high",
           impact |-> "high",
           category |-> "Cyber Security",
           mitigation |-> "Cloud security posture management, configuration audits"],
          [risk_id |-> "tech_3",
           title |-> "Customer Data Processing Scope Creep",
           description |-> "Processing customer data beyond agreed purposes",
           likelihood |-> "medium",
           impact |-> "medium",
           category |-> "GDPR Compliance",
           mitigation |-> "Data mapping, processing registers, privacy by design"],
          [risk_id |-> "tech_4",
           title |-> "API Security Breach",
           description |-> "Exploitation of API vulnerabilities exposing data",
           likelihood |-> "high",
           impact |-> "high",
           category |-> "Cyber Security",
           mitigation |-> "API security testing, authentication, rate limiting"],
          [risk_id |-> "tech_5",
           title |-> "International Data Transfer Issues",
           description |-> "Non-compliant data transfers to overseas development teams",
           likelihood |-> "high",
           impact |-> "medium",
           category |-> "GDPR Compliance",
           mitigation |-> "SCCs, adequacy decisions, data localisation"] >>
     ELSE IF key = "manufacturing" THEN
       << [risk_id |-> "mfg_1",
           title |-> "Industrial Control System Attack",
           description |-> "Cyber attack on operational technology systems",
           likelihood |-> "medium",
           impact |-> "high",
           category |-> "Cyber Security",
           mitigation |-> "OT/IT segregation, ICS security monitoring"],
          [risk_id |-> "mfg_2",
           title |-> "Supply Chain Data Breach",
           description |-> "Compromise through supplier systems",
           likelihood |-> "medium",
           impact |-> "medium",
           category |-> "Third Party Risk",
           mitigation |-> "Supplier security assessments, access restrictions"],
          [risk_id |-> "mfg_3",
           title |-> "Employee Personal Data Exposure",
           description |-> "HR system vulnerabilities exposing staff data",
           likelihood |-> "medium",
           impact |-> "medium",
           category |-> "GDPR Compliance",
           mitigation |-> "HR system security review, access controls"],
          [risk_id |-> "mfg_4",
           title |-> "Legacy System Vulnerabilities",
           description |-> "Unpatched legacy systems creating security gaps",
           likelihood |-> "high",
           impact |-> "medium",
           category |-> "Cyber Security",
           mitigation |-> "Legacy system audit, upgrade planning, compensating controls"],
          [risk_id |-> "mfg_5",
           title |-> "CCTV Compliance Issues",
           description |-> "Non-compliant use of workplace surveillance",
           likelihood |-> "medium",
           impact |-> "low",
           category |-> "GDPR Compliance",
           mitigation |-> "CCTV policy review, signage, retention limits"] >>
     ELSE (* general *)
       << [risk_id |-> "gen_1",
           title |-> "Ransomware Attack",
           description |-> "Malicious encryption of business data",
           likelihood |-> "high",
           impact |-> "high",
           category |-> "Cyber Security",
           mitigation |-> "Regular backups, endpoint protection, staff training"],
          [risk_id |-> "gen_2",
           title |-> "Phishing and Social Engineering",
           description |-> "Staff manipulation to disclose credentials or data",
           likelihood |-> "high",
           impact |-> "high",
           category |-> "Cyber Security",
           mitigation |-> "Security awareness training, email filtering, MFA"],
          [risk_id |-> "gen_3",
           title |-> "Data Subject Rights Non-Compliance",
           description |-> "Failure to respond to data subject requests timely",
           likelihood |-> "medium",
           impact |-> "medium",
           category |-> "GDPR Compliance",
           mitigation |-> "DSR procedures, staff training, request tracking"],
          [risk_id |-> "gen_4",
           title |-> "Third Party Data Breach",
           description |-> "Data exposure through supplier or partner systems",
           likelihood |-> "medium",
           impact |-> "medium",
           category |-> "Third Party Risk",
           mitigation |-> "Vendor assessments, contractual obligations, monitoring"],
          [risk_id |-> "gen_5",
           title |-> "Unencrypted Data Storage",
           description |-> "Personal data stored without encryption",
           likelihood |-> "medium",
           impact |-> "medium",
           category |-> "Data Security",
           mitigation |-> "Encryption at rest implementation, security audits"] >>
  ]

(***************************************************************************)
(* State.                                                                  *)
(***************************************************************************)
VARIABLES
  catalog,         \* the question list submit_health_check iterates (ALL_QUESTIONS)
  health_checks,   \* db.health_checks, in insertion order
  risk_registers,  \* db.risk_registers, in insertion order
  documents,       \* db.documents, in insertion order
  user_sessions,   \* db.user_sessions, in insertion order
  users,           \* db.users: user_id -> the profile fields generate writes
  reqs,            \* the requests started so far, in start order, with their locals
  uuids,           \* how many uuid.uuid4() values have been issued
  now              \* datetime.now(timezone.utc), as a logical clock

vars ==
  <<catalog, health_checks, risk_registers, documents, user_sessions, users, reqs, uuids, now>>

Users == {"user_a", "user_b"}

(* datetime.isoformat(), of a time of the logical clock. *)
isoformat(t) == "T+" \o ToString(t)

(* str(uuid.uuid4()): the n-th value issued by the process. *)
uuid4(n) == "uuid4-" \o ToString(n)

(***************************************************************************)
(* Scoring engine: submit_health_check.                                    *)
(***************************************************************************)

(* {r.question_id: r for r in submission.responses}: a later response      *)
(* replaces an earlier one with the same question_id.                      *)
responses_dict(responses) ==
  LET ids == {responses[i].question_id : i \in DOMAIN responses}
      last(qid) == CHOOSE i \in DOMAIN responses :
                     /\ responses[i].question_id = qid
                     /\ \A j \in DOMAIN responses :
                          responses[j].question_id = qid => j <= i
  IN  [qid \in ids |-> responses[last(qid)]]

(* dict.get(key): <<>> for None, <<value>> otherwise. *)
dict_get(d, key) == IF key \in DOMAIN d THEN <<d[key]>> ELSE <<>>

(* "high" if weight >= 3 else "medium" if weight >= 2 else "low" *)
priority(weight) ==
  IF weight >= 3 THEN "high" ELSE IF weight >= 2 THEN "medium" ELSE "low"

gap(q) ==
  [question_id |-> q.id,
   category    |-> q.category,
   subcategory |-> q.subcategory,
   question    |-> q.question,
   guidance    |-> q.guidance,
   priority    |-> priority(q.weight)]

(* Mutant of score_question: a question without an answer is treated as  *)
(* answered false.                                                         *)
score_question_unanswered_is_gap(q, d, acc) ==
  LET response == dict_get(d, q.id)
      yes == response # <<>> /\ response[1].answer
  IN  IF q.category = "GDPR"
      THEN [acc EXCEPT !.gdpr_max   = @ + q.weight,
                       !.gdpr_score = IF yes THEN @ + q.weight ELSE @,
                       !.gaps       = IF ~yes THEN Append(@, gap(q)) ELSE @]
      ELSE [acc EXCEPT !.cyber_max   = @ + q.weight,
                       !.cyber_score = IF yes THEN @ + q.weight ELSE @,
                       !.gaps        = IF ~yes THEN Append(@, gap(q)) ELSE @]

(* One iteration of `for q in ALL_QUESTIONS`: the maximum of q's category   *)
(* always grows; the score grows on a true answer; a false answer appends  *)
(* a gap; no answer does neither.                                          *)
score_question(q, d, acc) ==
  LET response == dict_get(d, q.id)
      yes == response # <<>> /\ response[1].answer
      no  == response # <<>> /\ ~response[1].answer
  IN  IF q.category = "GDPR"
      THEN [acc EXCEPT !.gdpr_max   = @ + q.weight,
                       !.gdpr_score = IF yes THEN @ + q.weight ELSE @,
                       !.gaps       = IF ~yes /\ no THEN Append(@, gap(q)) ELSE @]
      ELSE [acc EXCEPT !.cyber_max   = @ + q.weight,
                       !.cyber_score = IF yes THEN @ + q.weight ELSE @,
                       !.gaps        = IF ~yes /\ no THEN Append(@, gap(q)) ELSE @]

(* Mutant of score_loop: every answered question that is not in the       *)
(* catalog counts as one more Cyber Essentials question of weight 1.       *)
RECURSIVE score_loop_counting_unknown(_, _, _, _)
score_loop_counting_unknown(questions, d, i, acc) ==
  IF i > Len(questions)
  THEN [acc EXCEPT !.cyber_max =
          @ + Cardinality(DOMAIN d \ {questions[n].id : n \in DOMAIN questions})]
  ELSE score_loop_counting_unknown(questions, d, i + 1,
                                   score_question(questions[i], d, acc))

RECURSIVE score_loop(_, _, _, _)
score_loop(questions, d, i, acc) ==
  IF i > Len(questions) THEN acc
  ELSE score_loop(questions, d, i + 1, score_question(questions[i], d, acc))

(* Mutant of py_round_percent: int() in place of round(). *)
py_round_percent_floor(score, max) == (100 * score) \div max

(* Python 3 round((score / max) * 100) on doubles: round-half-to-even of   *)
(* the quotient; the one pair of the range max < 200 whose double product  *)
(* falls short of its exact half is 23/40 (57.49999999999999).             *)
py_round_percent(score, max) ==
  LET q == (100 * score) \div max
      r == (100 * score) % max
  IN  IF 40 * score = 23 * max THEN 57
      ELSE IF 2 * r < max THEN q
      ELSE IF 2 * r > max THEN q + 1
      ELSE IF q % 2 = 0 THEN q ELSE q + 1

(* Mutant of percentage: an empty category counts as fully compliant. *)
percentage_full_when_empty(score, max) ==
  IF max > 0 THEN py_round_percent(score, max) ELSE 100

(* round((score / max) * 100) if max > 0 else 0 *)
percentage(score, max) ==
  IF max > 0 THEN py_round_percent(score, max) ELSE 0

(* Mutant of risk_level: the lower bound of each band is exclusive. *)
risk_level_exclusive(overall_percentage) ==
  IF overall_percentage > 80 THEN "low"
  ELSE IF overall_percentage > 60 THEN "medium"
  ELSE IF overall_percentage > 40 THEN "high"
  ELSE "critical"

risk_level(overall_percentage) ==
  IF overall_percentage >= 80 THEN "low"
  ELSE IF overall_percentage >= 60 THEN "medium"
  ELSE IF overall_percentage >= 40 THEN "high"
  ELSE "critical"

(* priority_order.get(x["priority"], 3) *)
priority_order(p) ==
  IF p = "high" THEN 0 ELSE IF p = "medium" THEN 1 ELSE IF p = "low" THEN 2 ELSE 3

(* Mutant of sort_insert: an unstable sort, the element goes in front of  *)
(* the elements with its own key.                                          *)
sort_insert_unstable(sorted, x) ==
  LET k == Cardinality({i \in DOMAIN sorted :
                          priority_order(sorted[i].priority) < priority_order(x.priority)})
  IN  SubSeq(sorted, 1, k) \o <<x>> \o SubSeq(sorted, k + 1, Len(sorted))

(* list.sort(key=...) is stable: an element goes behind every element     *)
(* whose key is not greater than its own.                                  *)
sort_insert(sorted, x) ==
  LET k == Cardinality({i \in DOMAIN sorted :
                          priority_order(sorted[i].priority) <= priority_order(x.priority)})
  IN  SubSeq(sorted, 1, k) \o <<x>> \o SubSeq(sorted, k + 1, Len(sorted))

RECURSIVE sort_gaps(_)
sort_gaps(gaps) ==
  IF gaps = <<>> THEN <<>>
  ELSE sort_insert(sort_gaps(SubSeq(gaps, 1, Len(gaps) - 1)), gaps[Len(gaps)])

(* The record submit_health_check builds, stores and returns. *)
submit_health_check(questions, user_id, responses, id, created_at) ==
  LET acc == score_loop(questions, responses_dict(responses), 1,
                        [gdpr_score |-> 0, gdpr_max |-> 0,
                         cyber_score |-> 0, cyber_max |-> 0, gaps |-> <<>>])
      overall_percentage ==
        percentage(acc.gdpr_score + acc.cyber_score, acc.gdpr_max + acc.cyber_max)
      gaps == sort_gaps(acc.gaps)
  IN  [id                     |-> id,
       user_id                |-> user_id,
       responses              |-> responses,
       compliance_score       |-> overall_percentage,
       gdpr_score             |-> percentage(acc.gdpr_score, acc.gdpr_max),
       cyber_essentials_score |-> percentage(acc.cyber_score, acc.cyber_max),
       risk_level             |-> risk_level(overall_percentage),
       gaps                   |-> gaps,
       total_gaps             |-> Len(gaps),
       created_at             |-> created_at]

(* POST /health-check/submit: one store write, db.health_checks.insert_one. *)
Submit(user_id, responses) ==
  /\ health_checks' =
       Append(health_checks,
              submit_health_check(catalog, user_id, responses, uuid4(uuids + 1), now))
  /\ uuids' = uuids + 1
  /\ UNCHANGED <<user_sessions, documents, catalog, risk_registers, users, reqs, now>>

(***************************************************************************)
(* Risk register manager: generate_risk_register and update_risk.          *)
(* A string a handler transforms is a sequence of one-character strings;   *)
(* Str joins it into the string that is stored or looked up.               *)
(***************************************************************************)
RECURSIVE Str(_)
Str(chars) == IF chars = <<>> THEN "" ELSE Head(chars) \o Str(Tail(chars))

UPPER == <<"A", "B", "C", "D", "E", "F", "G", "H", "I", "J", "K", "L", "M",
           "N", "O", "P", "Q", "R", "S", "T", "U", "V", "W", "X", "Y", "Z">>

LOWER == <<"a", "b", "c", "d", "e", "f", "g", "h", "i", "j", "k", "l", "m",
           "n", "o", "p", "q", "r", "s", "t", "u", "v", "w", "x", "y", "z">>

(* str.lower(), on ASCII text *)
str_lower(chars) ==
  [i \in DOMAIN chars |->
     IF \E n \in DOMAIN UPPER : UPPER[n] = chars[i]
     THEN LOWER[CHOOSE n \in DOMAIN UPPER : UPPER[n] = chars[i]]
     ELSE chars[i]]

(* str.replace(" ", "_") *)
str_replace_space(chars) ==
  [i \in DOMAIN chars |-> IF chars[i] = " " THEN "_" ELSE chars[i]]

(* data.business_type.lower().replace(" ", "_") *)
normalize_business_type(chars) == Str(str_replace_space(str_lower(chars)))

(* Mutant of template_risks: the lookup defaults to an empty list. *)
template_risks_empty_default(key) ==
  IF key \in RISK_TEMPLATE_KEYS THEN RISK_TEMPLATES[key] ELSE <<>>

(* RISK_TEMPLATES.get(business_type, RISK_TEMPLATES["general"]) *)
template_risks(key) ==
  IF key \in RISK_TEMPLATE_KEYS THEN RISK_TEMPLATES[key] ELSE RISK_TEMPLATES["general"]

(* Mutant of new_risk: the template's risk_id is not replaced. *)
new_risk_keeps_template_id(risk, risk_id) ==
  [risk_id     |-> risk.risk_id,
   title       |-> risk.title,
   description |-> risk.description,
   likelihood  |-> risk.likelihood,
   impact      |-> risk.impact,
   category    |-> risk.category,
   mitigation  |-> risk.mitigation,
   status      |-> "identified",
   owner       |-> None,
   due_date    |-> None,
   notes       |-> None]

(* {**risk, "risk_id": str(uuid.uuid4()), "status": "identified", ...} *)
new_risk(risk, risk_id) ==
  [risk_id     |-> risk_id,
   title       |-> risk.title,
   description |-> risk.description,
   likelihood  |-> risk.likelihood,
   impact      |-> risk.impact,
   category    |-> risk.category,
   mitigation  |-> risk.mitigation,
   status      |-> "identified",
   owner       |-> None,
   due_date    |-> None,
   notes       |-> None]

(* The register generate_risk_register builds before it touches the       *)
(* store: one uuid4 per risk, in template order, then one for the          *)
(* register, the first of them being the (issued + 1)-th of the process.   *)
new_risk_register(user_id, data, issued, created_at) ==
  LET template == template_risks(normalize_business_type(data.business_type))
      risks == [i \in DOMAIN template |-> new_risk(template[i], uuid4(issued + i))]
  IN  [id            |-> uuid4(issued + Len(template) + 1),
       user_id       |-> user_id,
       business_type |-> Str(data.business_type),
       industry      |-> data.industry,
       risks         |-> risks,
       total_risks   |-> Len(risks),
       created_at    |-> created_at,
       updated_at    |-> created_at]

(* Store operations on a collection kept in insertion order. *)
matching(collection, user_id) ==
  {k \in DOMAIN collection : collection[k].user_id = user_id}

(* Mutant of delete_many: nothing is deleted. *)
delete_many_nothing(collection, user_id) == collection

(* delete_many({"user_id": user_id}) *)
delete_many(collection, user_id) ==
  SelectSeq(collection, LAMBDA doc : doc.user_id # user_id)

(* insert_one(doc) *)
insert_one(collection, doc) == Append(collection, doc)

MaxCalls == 3

Request(op, user_id, pc, data, risk_register, status_code, detail) ==
  [op            |-> op,
   user_id       |-> user_id,
   pc            |-> pc,
   data          |-> data,
   risk_register |-> risk_register,
   status_code   |-> status_code,
   detail        |-> detail]

(* POST /risk-register/generate, up to its first store operation: the      *)
(* register is built and db.risk_registers.delete_many removes the         *)
(* user's registers.                                                       *)
GenerateDelete(user_id, data) ==
  /\ Len(reqs) < MaxCalls
  /\ LET risk_register == new_risk_register(user_id, data, uuids, now)
     IN  /\ uuids' = uuids + Len(risk_register.risks) + 1
         /\ risk_registers' = delete_many(risk_registers, user_id)
         /\ reqs' = Append(reqs, Request("generate", user_id, "insert", data,
                                         <<risk_register>>, 0, ""))
  /\ UNCHANGED <<user_sessions, documents, catalog, health_checks, users, now>>

(* db.risk_registers.insert_one(risk_register) *)
GenerateInsert(r) ==
  /\ reqs[r].op = "generate" /\ reqs[r].pc = "insert"
  /\ risk_registers' = insert_one(risk_registers, reqs[r].risk_register[1])
  /\ reqs' = [reqs EXCEPT ![r].pc = "profile"]
  /\ UNCHANGED <<user_sessions, documents, catalog, health_checks, users, uuids, now>>

(* db.users.update_one({"user_id": ...}, {"$set": {"business_type": ...,   *)
(* "industry": ...}}), then the register is returned.                      *)
GenerateProfile(r) ==
  /\ reqs[r].op = "generate" /\ reqs[r].pc = "profile"
  /\ users' = [users EXCEPT ![reqs[r].user_id] =
                 [@ EXCEPT !.business_type = Str(reqs[r].data.business_type),
                           !.industry      = reqs[r].data.industry]]
  /\ reqs' = [reqs EXCEPT ![r].pc = "done", ![r].status_code = 200]
  /\ UNCHANGED <<user_sessions, documents, catalog, health_checks, risk_registers, uuids, now>>

(* Mutant of update_risks: the notes of the request are stored whatever    *)
(* they are.                                                               *)
update_risks_overwriting_notes(risks, risk_id, update) ==
  LET hits == {i \in DOMAIN risks : risks[i].risk_id = risk_id}
      first == CHOOSE i \in hits : \A j \in hits : i <= j
  IN  IF hits = {} THEN risks
      ELSE [risks EXCEPT ![first] =
              [@ EXCEPT !.status = update.status, !.notes = update.notes]]

(* Mutant of update_risks: a resolved risk keeps its status. *)
update_risks_resolved_is_final(risks, risk_id, update) ==
  LET hits == {i \in DOMAIN risks : risks[i].risk_id = risk_id}
      first == CHOOSE i \in hits : \A j \in hits : i <= j
  IN  IF hits = {} THEN risks
      ELSE [risks EXCEPT ![first] =
              [@ EXCEPT !.status = IF @ = "resolved" THEN @ ELSE update.status,
                        !.notes  = IF update.notes # None /\ update.notes # ""
                                   THEN update.notes ELSE @]]

(* Mutant of update_risks: only the risk that was updated is kept. *)
update_risks_keeping_updated_only(risks, risk_id, update) ==
  SelectSeq([i \in DOMAIN risks |->
               IF risks[i].risk_id = risk_id
               THEN [risks[i] EXCEPT !.status = update.status]
               ELSE risks[i]],
            LAMBDA risk : risk.risk_id = risk_id)

(* The loop of update_risk over risk_register["risks"]: the first risk     *)
(* with the risk_id gets the status, and the notes when they are truthy.   *)
update_risks(risks, risk_id, update) ==
  LET hits == {i \in DOMAIN risks : risks[i].risk_id = risk_id}
      first == CHOOSE i \in hits : \A j \in hits : i <= j
  IN  IF hits = {} THEN risks
      ELSE [risks EXCEPT ![first] =
              [@ EXCEPT !.status = update.status,
                        !.notes  = IF update.notes # None /\ update.notes # ""
                                   THEN update.notes ELSE @]]

(* Mutant of updated: the flag is set whatever the risk_id. *)
updated_always(risks, risk_id) == TRUE

(* The flag of update_risk's loop: some risk has the risk_id. *)
updated(risks, risk_id) ==
  \E i \in DOMAIN risks : risks[i].risk_id = risk_id

(* PUT /risk-register/{risk_id}, up to its store write:                    *)
(* db.risk_registers.find_one({"user_id": ...}) returns one of the user's  *)
(* registers (the store promises no order), 404 without one or without     *)
(* the risk.                                                               *)
UpdateFind(user_id, risk_id, update) ==
  /\ Len(reqs) < MaxCalls
  /\ LET data == [risk_id |-> risk_id, status |-> update.status, notes |-> update.notes]
     IN  IF matching(risk_registers, user_id) = {}
         THEN reqs' = Append(reqs, Request("update", user_id, "done", data, <<>>,
                                           404, "Risk register not found"))
         ELSE \E k \in matching(risk_registers, user_id) :
                LET risk_register == risk_registers[k]
                IN  IF ~updated(risk_register.risks, risk_id)
                    THEN reqs' = Append(reqs, Request("update", user_id, "done", data,
                                                      <<risk_register>>, 404,
                                                      "Risk not found"))
                    ELSE reqs' = Append(reqs,
                           Request("update", user_id, "save", data,
                                   <<[risk_register EXCEPT !.risks =
                                        update_risks(@, risk_id, update)]>>, 0, ""))
  /\ UNCHANGED <<user_sessions, documents, catalog, health_checks, risk_registers, users, uuids, now>>

(* db.risk_registers.update_one({"user_id": ...}, {"$set": {"risks": ...,  *)
(* "updated_at": ...}}): one register of the user, when there is one,      *)
(* takes the request's risk list; the request succeeds either way.         *)
UpdateSave(r) ==
  /\ reqs[r].op = "update" /\ reqs[r].pc = "save"
  /\ IF matching(risk_registers, reqs[r].user_id) = {}
     THEN UNCHANGED risk_registers
     ELSE \E k \in matching(risk_registers, reqs[r].user_id) :
            risk_registers' =
              [risk_registers EXCEPT ![k] =
                 [@ EXCEPT !.risks = reqs[r].risk_register[1].risks,
                           !.updated_at = now]]
  /\ reqs' = [reqs EXCEPT ![r].pc = "done", ![r].status_code = 200]
  /\ UNCHANGED <<user_sessions, documents, catalog, health_checks, users, uuids, now>>

(***************************************************************************)
(* The register manager under concurrent requests.                         *)
(***************************************************************************)
Retail == <<"R", "e", "t", "a", "i", "l">>

ProfessionalServices ==
  <<"P", "r", "o", "f", "e", "s", "s", "i", "o", "n", "a", "l", " ",
    "S", "e", "r", "v", "i", "c", "e", "s">>

General == <<"g", "e", "n", "e", "r", "a", "l">>

SpaceMining == <<"S", "p", "a", "c", "e", " ", "M", "i", "n", "i", "n", "g">>

HealthcareUpper == <<"H", "E", "A", "L", "T", "H", "C", "A", "R", "E">>

RetailTrailingSpace == <<"r", "e", "t", "a", "i", "l", " ">>

Empty == <<>>

(* The bodies of POST /risk-register/generate the clients send. *)
GenerateInputs ==
  {[business_type |-> Retail, industry |-> None],
   [business_type |-> ProfessionalServices, industry |-> "Legal Services"],
   [business_type |-> General, industry |-> None],
   [business_type |-> HealthcareUpper, industry |-> None],
   [business_type |-> SpaceMining, industry |-> None],
   [business_type |-> RetailTrailingSpace, industry |-> None],
   [business_type |-> Empty, industry |-> None]}

(* Those of them that the concurrent specification draws from. *)
ConcurrentGenerateInputs ==
  {[business_type |-> Retail, industry |-> None],
   [business_type |-> SpaceMining, industry |-> None]}

(* The risk ids a client of user_id can have read: those of the first two  *)
(* risks of a register one of its generate requests has inserted.  A       *)
(* client may also send a template's risk_id.                              *)
KnownRiskIds(user_id) ==
  {reqs[r].risk_register[1].risks[i].risk_id :
     r \in {n \in DOMAIN reqs : /\ reqs[n].op = "generate"
                                /\ reqs[n].user_id = user_id
                                /\ reqs[n].pc \in {"profile", "done"}},
     i \in {1, 2}}

RiskIdInputs(user_id) == KnownRiskIds(user_id) \cup {"retail_1"}

(* The bodies of PUT /risk-register/{risk_id} the clients send. *)
UpdateInputs ==
  {[status |-> "mitigating", notes |-> "Risk mitigation plan has been implemented"],
   [status |-> "resolved", notes |-> None]}

Init ==
  /\ catalog = ALL_QUESTIONS
  /\ health_checks = <<>>
  /\ risk_registers = <<>>
  /\ documents = <<>>
  /\ user_sessions = <<>>
  /\ users = [u \in Users |-> [business_type |-> None, industry |-> None]]
  /\ reqs = <<>>
  /\ uuids = 0
  /\ now = 0

Next ==
  \/ \E user_id \in Users, data \in ConcurrentGenerateInputs :
       GenerateDelete(user_id, data)
  \/ \E r \in DOMAIN reqs : GenerateInsert(r)
  \/ \E r \in DOMAIN reqs : GenerateProfile(r)
  \/ \E user_id \in Users :
       \E risk_id \in RiskIdInputs(user_id), update \in UpdateInputs :
         UpdateFind(user_id, risk_id, update)
  \/ \E r \in DOMAIN reqs : UpdateSave(r)

Spec == Init /\ [][Next]_vars

(* The same requests, one after another: a request starts only when every *)
(* earlier request has returned.                                           *)
Idle == \A r \in DOMAIN reqs : reqs[r].pc = "done"

NextSeq ==
  \/ /\ Idle
     /\ \E user_id \in Users, data \in GenerateInputs : GenerateDelete(user_id, data)
  \/ \E r \in DOMAIN reqs : GenerateInsert(r)
  \/ \E r \in DOMAIN reqs : GenerateProfile(r)
  \/ /\ Idle
     /\ \E user_id \in Users :
          \E risk_id \in RiskIdInputs(user_id), update \in UpdateInputs :
            UpdateFind(user_id, risk_id, update)
  \/ \E r \in DOMAIN reqs : UpdateSave(r)

SpecSeq == Init /\ [][NextSeq]_vars

(***************************************************************************)
(* Properties of the register manager.                                     *)
(***************************************************************************)
Generates == {r \in DOMAIN reqs : reqs[r].op = "generate"}

DoneGenerates(user_id) ==
  {r \in Generates : reqs[r].user_id = user_id /\ reqs[r].pc = "done"}

\* The template a generate request is to select, for the business types the
\* clients send.
ClaimTemplateKey(business_type) ==
  CASE business_type = Retail -> "retail"
    [] business_type = ProfessionalServices -> "professional_services"
    [] business_type = General -> "general"
    [] business_type = HealthcareUpper -> "healthcare"
    [] business_type \in {SpaceMining, RetailTrailingSpace, Empty} -> "general"

TemplateFields(risks) ==
  [i \in DOMAIN risks |->
     [title       |-> risks[i].title,
      description |-> risks[i].description,
      likelihood  |-> risks[i].likelihood,
      impact      |-> risks[i].impact,
      category    |-> risks[i].category,
      mitigation  |-> risks[i].mitigation]]

RiskIds(risk_register) ==
  {risk_register.risks[i].risk_id : i \in DOMAIN risk_register.risks}

\* C1: at every moment the store holds at most one risk register per
\* subject, however generate and update_status requests interleave.
C1_AtMostOneRegister ==
  \A user_id \in Users : Cardinality(matching(risk_registers, user_id)) <= 1

\* C2: when the requests run one after another, after every generate call
\* of a subject exactly one register of the subject is stored: the one the
\* latest generate call built, with as many risks as the template that
\* call selected.
C2_SequentialReplace ==
  \A user_id \in Users :
    Idle /\ DoneGenerates(user_id) # {} =>
      LET last == reqs[CHOOSE r \in DoneGenerates(user_id) :
                         \A n \in DoneGenerates(user_id) : n <= r]
          expected == RISK_TEMPLATES[ClaimTemplateKey(last.data.business_type)]
      IN  /\ Cardinality(matching(risk_registers, user_id)) = 1
          /\ \A k \in matching(risk_registers, user_id) :
               /\ risk_registers[k].id = last.risk_register[1].id
               /\ Len(risk_registers[k].risks) = Len(expected)
               /\ risk_registers[k].total_risks = Len(expected)
               /\ RiskIds(risk_registers[k]) = RiskIds(last.risk_register[1])
          /\ Len(last.risk_register[1].risks) = Len(expected)

\* C2 witness: a subject has generated twice, from different templates,
\* and holds one register.
C2_Witness ==
  \E user_id \in Users :
    /\ Idle
    /\ \E r1, r2 \in DoneGenerates(user_id) :
         /\ r1 < r2
         /\ ClaimTemplateKey(reqs[r1].data.business_type)
              # ClaimTemplateKey(reqs[r2].data.business_type)
    /\ Cardinality(matching(risk_registers, user_id)) = 1

\* C9: generate never fails; for a business type whose normalized form is
\* no template key it produces the risks of the "general" template, in
\* count, order and template fields, and for one whose normalized form is
\* a key (Professional Services) the risks of that key's template.
C9_UnknownFallsBack ==
  \A r \in Generates :
    LET business_type == reqs[r].data.business_type
        produced == TemplateFields(reqs[r].risk_register[1].risks)
    IN  /\ reqs[r].pc = "done" => reqs[r].status_code = 200
        /\ business_type \in {SpaceMining, RetailTrailingSpace, Empty} =>
             produced = TemplateFields(RISK_TEMPLATES["general"])
        /\ business_type = ProfessionalServices =>
             produced = TemplateFields(RISK_TEMPLATES["professional_services"])
        /\ produced = TemplateFields(RISK_TEMPLATES[ClaimTemplateKey(business_type)])
        /\ \A k \in DOMAIN risk_registers :
             risk_registers[k].id = reqs[r].risk_register[1].id =>
               TemplateFields(risk_registers[k].risks) = produced

\* C9 witness: a generate for an unknown business type and one for
\* "Professional Services" have returned, and the register of the unknown
\* type is stored.
C9_Witness ==
  \E r1, r2 \in Generates :
    /\ reqs[r1].pc = "done" /\ reqs[r1].status_code = 200
    /\ reqs[r1].data.business_type = SpaceMining
    /\ reqs[r1].risk_register[1].risks[1].title = "Ransomware Attack"
    /\ \E k \in DOMAIN risk_registers :
         risk_registers[k].id = reqs[r1].risk_register[1].id
    /\ reqs[r2].pc = "done"
    /\ reqs[r2].data.business_type = ProfessionalServices

TemplateRiskIds ==
  {RISK_TEMPLATES[key][i].risk_id :
     key \in RISK_TEMPLATE_KEYS, i \in 1..Len(RISK_TEMPLATES["general"])}

\* C10: every risk generate produces is identified, without owner, due
\* date and notes, under a risk_id that is no template's risk_id and that
\* no other risk of this or of any other generate call carries; Retail
\* yields 5 risks.
C10_FreshRisks ==
  \A r \in Generates :
    LET risks == reqs[r].risk_register[1].risks
    IN  /\ \A i \in DOMAIN risks :
             /\ risks[i].status = "identified"
             /\ risks[i].owner = None
             /\ risks[i].due_date = None
             /\ risks[i].notes = None
             /\ risks[i].risk_id \notin TemplateRiskIds
             /\ \A j \in DOMAIN risks : risks[j].risk_id = risks[i].risk_id => i = j
        /\ \A r2 \in Generates :
             r2 # r => RiskIds(reqs[r].risk_register[1])
                         \cap RiskIds(reqs[r2].risk_register[1]) = {}
        /\ reqs[r].data.business_type = Retail => Len(risks) = 5

\* C10 witness: the same subject has generated a Retail register twice.
C10_Witness ==
  \E user_id \in Users :
    \E r1, r2 \in DoneGenerates(user_id) :
      /\ r1 # r2
      /\ reqs[r1].data.business_type = Retail
      /\ reqs[r2].data.business_type = Retail
      /\ Len(reqs[r2].risk_register[1].risks) = 5

(***************************************************************************)
(* Inputs of the scoring engine.  submit_health_check reads the module     *)
(* level list ALL_QUESTIONS, which is assigned once and never changed.     *)
(***************************************************************************)
MaxResponses == 2

(* A client payload: the first n questions of the catalog answered alike,  *)
(* followed by up to MaxResponses further answers, which may repeat a      *)
(* question or name a question that is in no catalog.                      *)
QuestionPool == {"gdpr_2", "gdpr_11", "ce_1", "ce_2", "legacy_q"}

HealthCheckResponse(question_id, answer) ==
  [question_id |-> question_id, answer |-> answer, notes |-> None]

Bulk(questions, n, answer) ==
  [i \in 1..n |-> HealthCheckResponse(questions[i].id, answer)]

SeqsUpTo(S, n) == UNION {[1..k -> S] : k \in 0..n}

Payloads(questions) ==
  {Bulk(questions, n, a) \o extra :
     n \in 0..Len(questions), a \in BOOLEAN,
     extra \in SeqsUpTo({HealthCheckResponse(q, b) : q \in QuestionPool, b \in BOOLEAN},
                        MaxResponses)}

InitScore ==
  /\ catalog = ALL_QUESTIONS
  /\ health_checks = <<>>
  /\ risk_registers = <<>>
  /\ documents = <<>>
  /\ user_sessions = <<>>
  /\ users = [u \in Users |-> [business_type |-> None, industry |-> None]]
  /\ reqs = <<>>
  /\ uuids = 0
  /\ now = 0

(* One submission, of user_a, against an empty assessment store. *)
NextScore ==
  /\ health_checks = <<>>
  /\ \E responses \in Payloads(catalog) : Submit("user_a", responses)

SpecScore == InitScore /\ [][NextScore]_vars

(***************************************************************************)
(* Properties of the scoring engine (checked under SpecScore).             *)
(***************************************************************************)
CatalogIds == {catalog[i].id : i \in DOMAIN catalog}

CatalogIndex(question_id) ==
  CHOOSE i \in DOMAIN catalog : catalog[i].id = question_id

\* The answer a submission gives to a question: its last response to it.
Answered(responses, question_id) ==
  \E i \in DOMAIN responses : responses[i].question_id = question_id

AnswerOf(responses, question_id) ==
  LET last == CHOOSE i \in DOMAIN responses :
                /\ responses[i].question_id = question_id
                /\ \A j \in DOMAIN responses :
                     j > i => responses[j].question_id # question_id
  IN  responses[last].answer

AnsweredTrue(responses, q) == Answered(responses, q.id) /\ AnswerOf(responses, q.id)

AnsweredFalse(responses, q) == Answered(responses, q.id) /\ ~AnswerOf(responses, q.id)

RECURSIVE WeightSum(_)
WeightSum(questions) ==
  IF questions = <<>> THEN 0 ELSE Head(questions).weight + WeightSum(Tail(questions))

\* The total weight of a category of the catalog, and the weight a
\* submission achieves in it.
MaxWeight(category) ==
  WeightSum(SelectSeq(catalog, LAMBDA q : q.category = category))

AchievedWeight(category, responses) ==
  WeightSum(SelectSeq(catalog,
                      LAMBDA q : q.category = category /\ AnsweredTrue(responses, q)))

HasDuplicate(responses) ==
  \E i, j \in DOMAIN responses :
    i < j /\ responses[i].question_id = responses[j].question_id

HasUnknown(responses) ==
  \E i \in DOMAIN responses : responses[i].question_id \notin CatalogIds

\* The scoring of a stored submission's answers against another list of
\* questions than the shipped catalog.
ScoredAgainst(questions, hc) ==
  submit_health_check(questions, hc.user_id, hc.responses, hc.id, hc.created_at)

\* The shipped catalog without its GDPR questions.
CyberOnlyCatalog == SelectSeq(ALL_QUESTIONS, LAMBDA q : q.category # "GDPR")

\* C3: whatever is submitted, the overall, GDPR and Cyber Essentials
\* percentages are integers of 0..100; and the scoring of the same answers
\* against a list without questions of a category, or without any
\* question, gives that category, or every percentage, 0.
C3_ScoresInRange ==
  \A k \in DOMAIN health_checks :
    LET hc == health_checks[k]
        none == ScoredAgainst(<<>>, hc)
        cyber == ScoredAgainst(CyberOnlyCatalog, hc)
    IN  /\ hc.compliance_score \in 0..100
        /\ hc.gdpr_score \in 0..100
        /\ hc.cyber_essentials_score \in 0..100
        /\ MaxWeight("GDPR") = 0 => hc.gdpr_score = 0
        /\ MaxWeight("Cyber Essentials") = 0 => hc.cyber_essentials_score = 0
        /\ none.compliance_score = 0 /\ none.gdpr_score = 0
        /\ none.cyber_essentials_score = 0
        /\ cyber.gdpr_score = 0
        /\ cyber.compliance_score \in 0..100
        /\ cyber.cyber_essentials_score \in 0..100

\* C3 witness: the shipped catalog fully satisfied by a submission that
\* repeats a question and names an unknown one.
C3_Witness ==
  \E k \in DOMAIN health_checks :
    LET hc == health_checks[k]
    IN  /\ catalog = ALL_QUESTIONS
        /\ HasDuplicate(hc.responses)
        /\ HasUnknown(hc.responses)
        /\ hc.gdpr_score = 100
        /\ hc.cyber_essentials_score = 100
        /\ hc.compliance_score = 100

ClaimRank(p) == CASE p = "high" -> 0 [] p = "medium" -> 1 [] p = "low" -> 2

\* C4: in every assessment the gaps are ordered high, then medium, then
\* low, and gaps of equal priority keep the order of the catalog.
C4_GapsSorted ==
  \A k \in DOMAIN health_checks :
    LET gaps == health_checks[k].gaps
    IN  \A i, j \in DOMAIN gaps :
          i < j =>
            /\ gaps[i].priority \in {"high", "medium", "low"}
            /\ gaps[j].priority \in {"high", "medium", "low"}
            /\ ClaimRank(gaps[i].priority) <= ClaimRank(gaps[j].priority)
            /\ gaps[i].priority = gaps[j].priority =>
                 CatalogIndex(gaps[i].question_id) < CatalogIndex(gaps[j].question_id)

\* C4 witness: an assessment with gaps of all three priorities, two gaps
\* of equal priority, and a gap that the sort moved in front of a gap that
\* precedes it in the catalog.
C4_Witness ==
  \E k \in DOMAIN health_checks :
    LET gaps == health_checks[k].gaps
    IN  /\ {gaps[i].priority : i \in DOMAIN gaps} = {"high", "medium", "low"}
        /\ \E i, j \in DOMAIN gaps : i < j /\ gaps[i].priority = gaps[j].priority
        /\ \E i, j \in DOMAIN gaps :
             /\ i < j
             /\ CatalogIndex(gaps[i].question_id) > CatalogIndex(gaps[j].question_id)

ClaimPriority(weight) ==
  CASE weight >= 3 -> "high" [] weight = 2 -> "medium" [] weight = 1 -> "low"

\* C5: the gaps are exactly the catalog questions answered false, once
\* each, with priority high for weight >= 3, medium for 2, low for 1; a
\* question without an answer is no gap and adds nothing to the achieved
\* weight of its category, while every question's weight counts in the
\* category's maximum.
C5_GapsAreFalseAnswers ==
  \A k \in DOMAIN health_checks :
    LET hc == health_checks[k]
        gaps == hc.gaps
    IN  /\ {gaps[i].question_id : i \in DOMAIN gaps}
             = {catalog[i].id : i \in {n \in DOMAIN catalog :
                                         AnsweredFalse(hc.responses, catalog[n])}}
        /\ \A i, j \in DOMAIN gaps :
             gaps[i].question_id = gaps[j].question_id => i = j
        /\ \A i \in DOMAIN gaps :
             LET q == catalog[CatalogIndex(gaps[i].question_id)]
             IN  /\ gaps[i].priority = ClaimPriority(q.weight)
                 /\ gaps[i].category = q.category
        /\ hc.total_gaps = Len(gaps)
        /\ hc.gdpr_score =
             percentage(AchievedWeight("GDPR", hc.responses), MaxWeight("GDPR"))
        /\ hc.cyber_essentials_score =
             percentage(AchievedWeight("Cyber Essentials", hc.responses),
                        MaxWeight("Cyber Essentials"))
        /\ hc.compliance_score =
             percentage(AchievedWeight("GDPR", hc.responses)
                          + AchievedWeight("Cyber Essentials", hc.responses),
                        MaxWeight("GDPR") + MaxWeight("Cyber Essentials"))

\* C5 witness: a submission to the shipped catalog that leaves questions
\* unanswered, answers some true and answers a weight-2 and a weight-1
\* question false.
C5_Witness ==
  \E k \in DOMAIN health_checks :
    LET hc == health_checks[k]
    IN  /\ catalog = ALL_QUESTIONS
        /\ \E i \in DOMAIN catalog : ~Answered(hc.responses, catalog[i].id)
        /\ \E i \in DOMAIN catalog : AnsweredTrue(hc.responses, catalog[i])
        /\ {hc.gaps[i].priority : i \in DOMAIN hc.gaps} = {"medium", "low"}
        /\ 0 < hc.gdpr_score /\ hc.gdpr_score < 100

ClaimRiskLevel(p) ==
  CASE p >= 80 -> "low"
    [] p \in 60..79 -> "medium"
    [] p \in 40..59 -> "high"
    [] p < 40 -> "critical"

\* C6: the risk level is a function of the overall percentage: low from
\* 80, medium for 60..79, high for 40..59, critical below 40, in the stored
\* assessments and for every percentage of 0..100 the function is given.
C6_RiskLevelBands ==
  \A k \in DOMAIN health_checks :
    LET hc == health_checks[k]
    IN  /\ hc.risk_level = ClaimRiskLevel(hc.compliance_score)
        /\ \A p \in 0..100 : risk_level(p) = ClaimRiskLevel(p)
        /\ hc.compliance_score = 80 => hc.risk_level = "low"
        /\ hc.compliance_score = 79 => hc.risk_level = "medium"
        /\ hc.compliance_score = 60 => hc.risk_level = "medium"
        /\ hc.compliance_score = 59 => hc.risk_level = "high"
        /\ hc.compliance_score = 40 => hc.risk_level = "high"
        /\ hc.compliance_score = 39 => hc.risk_level = "critical"

\* C6 witness: an assessment whose overall percentage is exactly 60, the
\* lower bound of medium.
C6_Witness ==
  \E k \in DOMAIN health_checks :
    /\ health_checks[k].compliance_score = 60
    /\ health_checks[k].risk_level = "medium"

ExampleResponses ==
  <<HealthCheckResponse("gdpr_1", TRUE), HealthCheckResponse("gdpr_2", FALSE),
    HealthCheckResponse("ce_1", TRUE)>>

\* The catalog of the example: gdpr_1, gdpr_2 and ce_1, each of weight 3.
ExampleCatalog ==
  SubSeq(GDPR_QUESTIONS, 1, 2) \o SubSeq(CYBER_ESSENTIALS_QUESTIONS, 1, 1)

ExampleSubmitted(hc) == hc.responses = ExampleResponses

\* C7 as stated: the example submission, scored against the example's
\* three-question catalog, has GDPR 50, Cyber Essentials
\* 100, has the one gap gdpr_2 (high), overall 44 and risk level high.
C7_Original ==
  \A k \in DOMAIN health_checks :
    LET hc == ScoredAgainst(ExampleCatalog, health_checks[k])
    IN  ExampleSubmitted(hc) =>
          /\ hc.gdpr_score = 50
          /\ hc.cyber_essentials_score = 100
          /\ Len(hc.gaps) = 1
          /\ hc.gaps[1].question_id = "gdpr_2"
          /\ hc.gaps[1].priority = "high"
          /\ hc.compliance_score = 44
          /\ hc.risk_level = "high"

\* C7 amended: the example submission, scored against the example's
\* three-question catalog, has GDPR 50, Cyber Essentials
\* 100, has the one gap gdpr_2 (high), overall 67 (6 of 9) and risk level
\* medium.
C7_Example ==
  \A k \in DOMAIN health_checks :
    LET hc == ScoredAgainst(ExampleCatalog, health_checks[k])
    IN  ExampleSubmitted(hc) =>
          /\ hc.gdpr_score = 50
          /\ hc.cyber_essentials_score = 100
          /\ Len(hc.gaps) = 1
          /\ hc.gaps[1].question_id = "gdpr_2"
          /\ hc.gaps[1].priority = "high"
          /\ hc.compliance_score = 67
          /\ hc.risk_level = "medium"

\* C7 witness: the example submission has been submitted, and the
\* example's catalog has three questions, GDPR weight 6 and Cyber
\* Essentials weight 3.
C7_Witness ==
  \E k \in DOMAIN health_checks :
    /\ ExampleSubmitted(health_checks[k])
    /\ Len(ExampleCatalog) = 3
    /\ WeightSum(SelectSeq(ExampleCatalog, LAMBDA q : q.category = "GDPR")) = 6
    /\ WeightSum(SelectSeq(ExampleCatalog,
                           LAMBDA q : q.category = "Cyber Essentials")) = 3
    /\ health_checks[k].total_gaps = 1

KnownOnly(responses) ==
  SelectSeq(responses, LAMBDA r : r.question_id \in CatalogIds)

\* C8: answers to questions that are not in the catalog change nothing:
\* the assessment has the scores, risk level and gaps of the submission
\* without those answers.
C8_UnknownIgnored ==
  \A k \in DOMAIN health_checks :
    LET hc == health_checks[k]
        base == submit_health_check(catalog, hc.user_id, KnownOnly(hc.responses),
                                    hc.id, hc.created_at)
    IN  /\ hc.compliance_score = base.compliance_score
        /\ hc.gdpr_score = base.gdpr_score
        /\ hc.cyber_essentials_score = base.cyber_essentials_score
        /\ hc.risk_level = base.risk_level
        /\ hc.gaps = base.gaps
        /\ hc.total_gaps = base.total_gaps

\* C8 witness: a stored assessment of a submission that answers an unknown
\* question false, next to known questions answered true and false.
C8_Witness ==
  \E k \in DOMAIN health_checks :
    LET hc == health_checks[k]
    IN  /\ \E i \in DOMAIN hc.responses :
             /\ hc.responses[i].question_id \notin CatalogIds
             /\ ~hc.responses[i].answer
        /\ hc.total_gaps > 0
        /\ hc.compliance_score > 0
        /\ catalog = ALL_QUESTIONS

(***************************************************************************)
(* update_risk with every body a client can send, the requests one after   *)
(* another.  RiskUpdate declares status as str and notes as Optional[str], *)
(* so the body may carry any string as status and no, empty or some notes. *)
(***************************************************************************)
RiskStatuses == {"identified", "mitigating", "resolved", "accepted"}

UpdateBodies ==
  {[status |-> s, notes |-> None] : s \in RiskStatuses \cup {"closed"}}
    \cup {[status |-> "mitigating", notes |-> n] :
            n \in {"", "Plan agreed", "Plan implemented"}}
    \cup {[status |-> "resolved", notes |-> "Plan implemented"]}

(* user_a generates and updates; user_b, who never generates, sends        *)
(* updates too, with the risk ids user_a can have read.                    *)
UpdateRiskIds == KnownRiskIds("user_a") \cup {"retail_1"}

NextUpdate ==
  \/ /\ Idle
     /\ GenerateDelete("user_a", [business_type |-> Retail, industry |-> None])
  \/ \E r \in DOMAIN reqs : GenerateInsert(r)
  \/ \E r \in DOMAIN reqs : GenerateProfile(r)
  \/ /\ Idle
     /\ \E risk_id \in UpdateRiskIds :
          \/ \E update \in UpdateBodies : UpdateFind("user_a", risk_id, update)
          \/ UpdateFind("user_b", risk_id, [status |-> "accepted", notes |-> None])
  \/ \E r \in DOMAIN reqs : UpdateSave(r)

SpecUpdate == Init /\ [][NextUpdate]_vars

(***************************************************************************)
(* Properties of update_risk.                                              *)
(***************************************************************************)
\* The request a step starts, as a set: empty when the step starts none.
Started ==
  IF Len(reqs') = Len(reqs) + 1 THEN {reqs'[Len(reqs')]} ELSE {}

\* The update requests whose store write a step performs.
Saved ==
  {r \in DOMAIN reqs : /\ reqs[r].op = "update"
                       /\ reqs[r].pc = "save"
                       /\ r \in DOMAIN reqs' /\ reqs'[r].pc = "done"}

\* The positions in db.risk_registers, before the step, of the risk an
\* update request names.
Targets(r) ==
  {t \in UNION {{<<k, i>> : i \in DOMAIN risk_registers[k].risks} :
                  k \in matching(risk_registers, r.user_id)} :
     risk_registers[t[1]].risks[t[2]].risk_id = r.data.risk_id}

\* C11: an update request of a subject without a register, or with a
\* risk_id that no risk of the subject's register has, is answered with 404
\* and leaves the stored registers (statuses, notes, updated_at) as they
\* were; no other update request is answered with 404.
C11_StepNotFound ==
  \A r \in Started :
    r.op = "update" =>
      /\ Targets(r) = {} =>
           /\ r.pc = "done" /\ r.status_code = 404
           /\ r.detail = IF matching(risk_registers, r.user_id) = {}
                         THEN "Risk register not found" ELSE "Risk not found"
           /\ risk_registers' = risk_registers
      /\ r.status_code = 404 => Targets(r) = {}

C11_NotFoundLeavesRegister == [][C11_StepNotFound]_vars

\* C11 witness: both kinds of 404 have been answered and a register of
\* user_a is stored.
C11_Witness ==
  /\ \E r \in DOMAIN reqs :
       reqs[r].status_code = 404 /\ reqs[r].detail = "Risk register not found"
  /\ \E r \in DOMAIN reqs :
       reqs[r].status_code = 404 /\ reqs[r].detail = "Risk not found"
  /\ \E k \in DOMAIN risk_registers : risk_registers[k].user_id = "user_a"

\* C12: a successful update whose notes are omitted (None) or empty leaves
\* the notes of the risk it names as they were stored; one with non-empty
\* notes stores exactly those notes.
C12_StepNotes ==
  \A r \in Saved :
    /\ Targets(reqs[r]) # {}
    /\ \A t \in Targets(reqs[r]) :
         LET before == risk_registers[t[1]].risks[t[2]]
             after  == risk_registers'[t[1]].risks[t[2]]
             notes  == reqs[r].data.notes
         IN  /\ reqs'[r].status_code = 200
             /\ after.risk_id = before.risk_id
             /\ notes \in {None, ""} => after.notes = before.notes
             /\ notes \notin {None, ""} => after.notes = notes

C12_NotesKeptOrReplaced == [][C12_StepNotes]_vars

\* C12 witness: a risk carries the notes of an earlier update after a
\* later successful update of the same risk that sent empty notes.
C12_Witness ==
  \E r1, r2 \in DOMAIN reqs :
    /\ r1 < r2
    /\ reqs[r1].op = "update" /\ reqs[r2].op = "update"
    /\ reqs[r1].status_code = 200 /\ reqs[r2].status_code = 200
    /\ reqs[r1].data.risk_id = reqs[r2].data.risk_id
    /\ reqs[r1].data.notes = "Plan agreed"
    /\ reqs[r2].data.notes = ""
    /\ \E k \in DOMAIN risk_registers :
         \E i \in DOMAIN risk_registers[k].risks :
           /\ risk_registers[k].risks[i].risk_id = reqs[r2].data.risk_id
           /\ risk_registers[k].risks[i].notes = "Plan agreed"

\* C13: every risk of every stored register has one of the four statuses
\* identified, mitigating, resolved, accepted.
C13_StatusInEnum ==
  \A k \in DOMAIN risk_registers :
    \A i \in DOMAIN risk_registers[k].risks :
      risk_registers[k].risks[i].status \in RiskStatuses

\* C14: an update request that names a risk of the subject's register and
\* carries one of the four statuses is not refused, and its store write
\* sets the risk's status to that value whatever the status was.
C14_StepAnyTransition ==
  /\ \A r \in Started :
       r.op = "update" /\ Targets(r) # {} /\ r.data.status \in RiskStatuses =>
         r.pc = "save"
  /\ \A r \in Saved :
       reqs[r].data.status \in RiskStatuses =>
         /\ reqs'[r].status_code = 200
         /\ \A t \in Targets(reqs[r]) :
              risk_registers'[t[1]].risks[t[2]].status = reqs[r].data.status

C14_AnyTransition == [][C14_StepAnyTransition]_vars

\* C14 witness: a risk that was set to resolved has been set back to
\* identified.
C14_Witness ==
  \E r1, r2 \in DOMAIN reqs :
    /\ r1 < r2
    /\ reqs[r1].op = "update" /\ reqs[r2].op = "update"
    /\ reqs[r1].status_code = 200 /\ reqs[r2].status_code = 200
    /\ reqs[r1].data.risk_id = reqs[r2].data.risk_id
    /\ reqs[r1].data.status = "resolved"
    /\ reqs[r2].data.status = "identified"
    /\ \E k \in DOMAIN risk_registers :
         \E i \in DOMAIN risk_registers[k].risks :
           /\ risk_registers[k].risks[i].risk_id = reqs[r2].data.risk_id
           /\ risk_registers[k].risks[i].status = "identified"

(***************************************************************************)
(* Document orchestrator: upload_document, analyze_document and            *)
(* delete_document.  File content is a sequence of bytes.                  *)
(***************************************************************************)
allowed_types_with_images ==
  {"application/pdf", "text/plain", "application/msword",
   "application/vnd.openxmlformats-officedocument.wordprocessingml.document",
   "image/png"}

allowed_types ==
  {"application/pdf", "text/plain", "application/msword",
   "application/vnd.openxmlformats-officedocument.wordprocessingml.document"}

b64alphabet ==
  <<"A", "B", "C", "D", "E", "F", "G", "H", "I", "J", "K", "L", "M",
    "N", "O", "P", "Q", "R", "S", "T", "U", "V", "W", "X", "Y", "Z",
    "a", "b", "c", "d", "e", "f", "g", "h", "i", "j", "k", "l", "m",
    "n", "o", "p", "q", "r", "s", "t", "u", "v", "w", "x", "y", "z",
    "0", "1", "2", "3", "4", "5", "6", "7", "8", "9", "+", "/">>

(* base64.b64encode(content).decode("utf-8") *)
RECURSIVE b64encode(_)
b64encode(content) ==
  LET b(i) == content[i]
      c(n) == b64alphabet[n + 1]
  IN  CASE Len(content) = 0 -> ""
        [] Len(content) = 1 ->
             c(b(1) \div 4) \o c((b(1) % 4) * 16) \o "=="
        [] Len(content) = 2 ->
             c(b(1) \div 4) \o c((b(1) % 4) * 16 + b(2) \div 16)
               \o c((b(2) % 16) * 4) \o "="
        [] OTHER ->
             c(b(1) \div 4) \o c((b(1) % 4) * 16 + b(2) \div 16)
               \o c((b(2) % 16) * 4 + b(3) \div 64) \o c(b(3) % 64)
               \o b64encode(SubSeq(content, 4, Len(content)))

(* The record upload_document builds and stores. *)
new_document(user_id, file, id, created_at) ==
  [id              |-> id,
   user_id         |-> user_id,
   filename        |-> file.filename,
   file_type       |-> file.content_type,
   file_size       |-> Len(file.content),
   content_base64  |-> b64encode(file.content),
   analysis_status |-> "pending",
   analysis_result |-> None,
   created_at      |-> created_at]

(* A request of the document endpoints: its inputs, its locals (the        *)
(* document find_one returned, what each analyzer call it made came back   *)
(* with) and its answer.                                                   *)
DocumentRequest(op, user_id, pc, data, document, analyzer_outcomes, status_code, detail, response) ==
  [op                |-> op,
   user_id           |-> user_id,
   pc                |-> pc,
   data              |-> data,
   document          |-> document,
   analyzer_outcomes |-> analyzer_outcomes,
   status_code       |-> status_code,
   detail            |-> detail,
   response          |-> response]

(* POST /documents/upload: 400 for a content type outside allowed_types,   *)
(* otherwise one store write, db.documents.insert_one; the answer is the   *)
(* document without its content.                                           *)
Upload(user_id, file) ==
  /\ Len(reqs) < MaxCalls
  /\ IF file.content_type \notin allowed_types
     THEN /\ reqs' = Append(reqs,
                 DocumentRequest("upload", user_id, "done", file, <<>>, <<>>, 400,
                   "Invalid file type. Please upload PDF, TXT, DOC, or DOCX files.",
                   <<>>))
          /\ UNCHANGED <<documents, uuids>>
     ELSE LET document == new_document(user_id, file, uuid4(uuids + 1), now)
          IN  /\ documents' = insert_one(documents, document)
              /\ uuids' = uuids + 1
              /\ reqs' = Append(reqs,
                     DocumentRequest("upload", user_id, "done", file, <<document>>,
                       <<>>, 200, "",
                       <<[f \in DOMAIN document \ {"content_base64"} |-> document[f]]>>))
  /\ UNCHANGED <<user_sessions, catalog, health_checks, risk_registers, users, now>>

(* The positions of the documents find_one / delete_one / update_one       *)
(* match: {"id": document_id, "user_id": user_id}, or {"id": document_id}  *)
(* when user_id is AnyUser.                                                    *)
AnyUser == "*"

(* Mutant of matching_documents: the user_id is not part of the filter. *)
matching_documents_of_any_user(collection, document_id, user_id) ==
  {k \in DOMAIN collection : collection[k].id = document_id}

matching_documents(collection, document_id, user_id) ==
  {k \in DOMAIN collection :
     /\ collection[k].id = document_id
     /\ user_id # AnyUser => collection[k].user_id = user_id}

first_of(positions) == CHOOSE k \in positions : \A j \in positions : k <= j

(* Mutant of delete_one: every document of the user is removed. *)
delete_one_all_of_user(collection, document_id, user_id) ==
  SelectSeq(collection, LAMBDA doc : doc.user_id # user_id)

(* delete_one({"id": document_id, "user_id": user_id}) *)
delete_one(collection, document_id, user_id) ==
  LET hits == matching_documents(collection, document_id, user_id)
  IN  IF hits = {} THEN collection
      ELSE [k \in 1..(Len(collection) - 1) |->
              IF k < first_of(hits) THEN collection[k] ELSE collection[k + 1]]

(* Mutant of update_one: only a pending document is written. *)
update_one_pending_only(collection, document_id, fields) ==
  LET hits == matching_documents(collection, document_id, AnyUser)
  IN  IF hits = {} \/ collection[first_of(hits)].analysis_status # "pending"
      THEN collection
      ELSE [collection EXCEPT ![first_of(hits)] = fields @@ @]

(* update_one({"id": document_id}, {"$set": fields}): the fields are set   *)
(* on the first document with the id, other fields stay.                   *)
update_one(collection, document_id, fields) ==
  LET hits == matching_documents(collection, document_id, AnyUser)
  IN  IF hits = {} THEN collection
      ELSE [collection EXCEPT ![first_of(hits)] = fields @@ @]

(* json.loads on the replies the analyzer gives: the parsed value (the     *)
(* empty object is the empty record, null is None), or the message of the  *)
(* exception raised.  It is defined for the contents listed here.          *)
json_loads(content) ==
  CASE content = "{\"overall_assessment\": \"Adequate\"}" ->
         [ok |-> TRUE, value |-> [overall_assessment |-> "Adequate"]]
    [] content = "{\"overall_assessment\": \"Major gaps\"}" ->
         [ok |-> TRUE, value |-> [overall_assessment |-> "Major gaps"]]
    [] content = "{}" ->
         [ok |-> TRUE, value |-> <<>>]
    [] content = "null" ->
         [ok |-> TRUE, value |-> None]
    [] content = None ->
         [ok |-> FALSE,
          error |-> "the JSON object must be str, bytes or bytearray, not NoneType"]
    [] content \in {"", "Sorry, I cannot analyse this document."} ->
         [ok |-> FALSE, error |-> "Expecting value: line 1 column 1 (char 0)"]

(* What openai_client.chat.completions.create can do: return a reply with  *)
(* some message content, or raise.                                         *)
AnalyzerOutcomes ==
  {[kind |-> "reply", content |-> c] :
     c \in {"{\"overall_assessment\": \"Adequate\"}",
            "{\"overall_assessment\": \"Major gaps\"}",
            "null",
            "Sorry, I cannot analyse this document.",
            None}}
    \cup {[kind |-> "raise", error |-> e] :
            e \in {"Connection error.", "Error code: 500 - server_error"}}

(* The try block up to update_one: the parsed reply, or the exception. *)
analysis(outcome) ==
  IF outcome.kind = "raise"
  THEN [ok |-> FALSE, error |-> outcome.error]
  ELSE json_loads(outcome.content)

(* The fields analyze_document sets on success. *)
analysis_completed(analysis_data, analyzed_at) ==
  [analysis_status |-> "completed",
   analysis_result |-> analysis_data,
   analyzed_at     |-> analyzed_at]

(* Mutant of analysis_failed: the error is stored, the status is not. *)
analysis_failed_keeps_status(error) == [analysis_error |-> error]

(* Mutant of analysis_failed: the document goes back to pending. *)
analysis_failed_resets_pending(error) ==
  [analysis_status |-> "pending", analysis_error |-> error]

(* The fields analyze_document sets in its except block. *)
analysis_failed(error) ==
  [analysis_status |-> "failed", analysis_error |-> error]

(* POST /documents/{document_id}/analyze up to the analyzer call:          *)
(* db.documents.find_one({"id": ..., "user_id": ...}), 404 without a       *)
(* document.  The prompt built from the content goes to the analyzer only. *)
AnalyzeFind(user_id, document_id) ==
  /\ Len(reqs) < MaxCalls
  /\ LET hits == matching_documents(documents, document_id, user_id)
         data == [document_id |-> document_id]
     IN  IF hits = {}
         THEN reqs' = Append(reqs,
                DocumentRequest("analyze", user_id, "done", data, <<>>, <<>>, 404,
                                "Document not found", <<>>))
         ELSE reqs' = Append(reqs,
                DocumentRequest("analyze", user_id, "call", data,
                                <<documents[first_of(hits)]>>, <<>>, 0, "", <<>>))
  /\ UNCHANGED <<user_sessions, documents, catalog, health_checks, risk_registers, users, uuids, now>>

(* The analyzer call returns or raises, and the handler writes:            *)
(* db.documents.update_one({"id": document_id}, ...) with the completed    *)
(* fields, or with the failed fields and answer 500.                       *)
AnalyzeSave(r, outcome) ==
  /\ reqs[r].op = "analyze" /\ reqs[r].pc = "call"
  /\ LET document_id == reqs[r].data.document_id
         result == analysis(outcome)
     IN  IF result.ok
         THEN /\ documents' = update_one(documents, document_id,
                                         analysis_completed(result.value, now))
              /\ reqs' = [reqs EXCEPT
                   ![r].pc = "return",
                   ![r].analyzer_outcomes = Append(@, outcome)]
         ELSE /\ documents' = update_one(documents, document_id,
                                         analysis_failed(result.error))
              /\ reqs' = [reqs EXCEPT
                   ![r].pc = "done",
                   ![r].analyzer_outcomes = Append(@, outcome),
                   ![r].status_code = 500,
                   ![r].detail = "Analysis failed: " \o result.error]
  /\ UNCHANGED <<user_sessions, catalog, health_checks, risk_registers, users, uuids, now>>

(* After update_one returned: the answer 200 with the parsed reply and the *)
(* time of the clock now.                                                  *)
AnalyzeReturn(r) ==
  /\ reqs[r].op = "analyze" /\ reqs[r].pc = "return"
  /\ reqs' = [reqs EXCEPT
       ![r].pc = "done",
       ![r].status_code = 200,
       ![r].response = <<[document_id |-> reqs[r].data.document_id,
                          filename    |-> reqs[r].document[1].filename,
                          analysis    |-> analysis(reqs[r].analyzer_outcomes[1]).value,
                          analyzed_at |-> isoformat(now)]>>]
  /\ UNCHANGED <<user_sessions, documents, catalog, health_checks, risk_registers, users, uuids, now>>

(* DELETE /documents/{document_id}: one store operation, delete_one; 404   *)
(* when it deleted nothing.                                                *)
Delete(user_id, document_id) ==
  /\ Len(reqs) < MaxCalls
  /\ documents' = delete_one(documents, document_id, user_id)
  /\ LET deleted_count ==
           IF matching_documents(documents, document_id, user_id) = {} THEN 0 ELSE 1
         data == [document_id |-> document_id]
     IN  reqs' = Append(reqs,
           IF deleted_count = 0
           THEN DocumentRequest("delete", user_id, "done", data, <<>>, <<>>, 404,
                                "Document not found", <<>>)
           ELSE DocumentRequest("delete", user_id, "done", data, <<>>, <<>>, 200, "",
                                <<[message |-> "Document deleted successfully"]>>))
  /\ UNCHANGED <<user_sessions, catalog, health_checks, risk_registers, users, uuids, now>>

(***************************************************************************)
(* The document endpoints under concurrent requests of two users.          *)
(***************************************************************************)
Files ==
  {[filename |-> "privacy-policy.pdf", content_type |-> "application/pdf",
    content |-> <<80, 68, 70>>],
   [filename |-> "notes.txt", content_type |-> "text/plain",
    content |-> <<72, 105>>],
   [filename |-> "empty.doc", content_type |-> "application/msword",
    content |-> <<>>],
   [filename |-> "security.docx",
    content_type |->
      "application/vnd.openxmlformats-officedocument.wordprocessingml.document",
    content |-> <<71, 68, 80, 82>>],
   [filename |-> "logo.png", content_type |-> "image/png",
    content |-> <<255>>],
   [filename |-> "policy.PDF", content_type |-> "Application/PDF",
    content |-> <<80, 68, 70>>],
   [filename |-> "page.txt", content_type |-> "text/plain; charset=utf-8",
    content |-> <<72, 105>>]}

(* The document ids a client can send: those the uploads have answered,    *)
(* and one that no document ever had.                                      *)
DocumentIdInputs ==
  {reqs[r].document[1].id :
     r \in {n \in DOMAIN reqs : reqs[n].op = "upload" /\ reqs[n].status_code = 200}}
    \cup {"no-such-document"}

NextDocs ==
  \/ \E user_id \in Users, file \in Files : Upload(user_id, file)
  \/ \E user_id \in Users, document_id \in DocumentIdInputs :
       AnalyzeFind(user_id, document_id)
  \/ \E r \in DOMAIN reqs, outcome \in AnalyzerOutcomes : AnalyzeSave(r, outcome)
  \/ \E r \in DOMAIN reqs : AnalyzeReturn(r)
  \/ \E user_id \in Users, document_id \in DocumentIdInputs :
       Delete(user_id, document_id)

SpecDocs == Init /\ [][NextDocs]_vars

(***************************************************************************)
(* Properties of the document orchestrator.                                *)
(***************************************************************************)
\* The analyze requests whose analyzer call and store write a step performs.
Analyzed ==
  {r \in DOMAIN reqs : /\ reqs[r].op = "analyze"
                       /\ reqs[r].pc = "call"
                       /\ r \in DOMAIN reqs' /\ reqs'[r].pc \in {"return", "done"}}

\* The analyze requests a step answers after their store write.
Returned ==
  {r \in DOMAIN reqs : /\ reqs[r].op = "analyze"
                       /\ reqs[r].pc = "return"
                       /\ r \in DOMAIN reqs' /\ reqs'[r].pc = "done"}

\* Two stored or returned values are the same value, of whatever kind.
Same(a, b) == ToString(a) = ToString(b)

\* The positions, in a collection, of the documents with an id.
WithId(collection, document_id) ==
  {k \in DOMAIN collection : collection[k].id = document_id}

\* The positions, before the step, of the documents a request names that
\* belong to the requesting subject.
OwnDocuments(r) ==
  {k \in WithId(documents, r.data.document_id) : documents[k].user_id = r.user_id}

ClaimAllowList ==
  {"application/pdf", "text/plain", "application/msword",
   "application/vnd.openxmlformats-officedocument.wordprocessingml.document"}

\* C15: an upload whose media type is outside the allow-list is answered
\* with 400 and stores nothing; an upload whose media type is in the list
\* adds exactly one document, of the uploading subject, with
\* analysis_status pending and analysis_result null.
C15_StepUpload ==
  \A r \in Started :
    r.op = "upload" =>
      IF r.data.content_type \in ClaimAllowList
      THEN /\ r.status_code = 200
           /\ Len(documents') = Len(documents) + 1
           /\ SubSeq(documents', 1, Len(documents)) = documents
           /\ LET document == documents'[Len(documents')]
              IN  /\ document.analysis_status = "pending"
                  /\ document.analysis_result = None
                  /\ document.user_id = r.user_id
                  /\ document.filename = r.data.filename
                  /\ document.file_type = r.data.content_type
                  /\ WithId(documents, document.id) = {}
      ELSE /\ r.status_code = 400
           /\ documents' = documents

C15_UploadAllowList == [][C15_StepUpload]_vars

\* C15 witness: an image/png upload was refused and an application/pdf
\* upload is stored, pending.
C15_Witness ==
  /\ \E r \in DOMAIN reqs :
       /\ reqs[r].op = "upload" /\ reqs[r].status_code = 400
       /\ reqs[r].data.content_type = "image/png"
  /\ \E k \in DOMAIN documents :
       /\ documents[k].file_type = "application/pdf"
       /\ documents[k].analysis_status = "pending"
       /\ documents[k].content_base64 = "UERG"

\* An analyzer outcome the claims count as a success: a reply whose
\* content is a JSON object.
ClaimSuccess(outcome) ==
  /\ outcome.kind = "reply"
  /\ outcome.content \in {"{\"overall_assessment\": \"Adequate\"}",
                          "{\"overall_assessment\": \"Major gaps\"}",
                          "null"}

\* The value such a content stands for.
ClaimParsed(outcome) ==
  CASE outcome.content = "{\"overall_assessment\": \"Adequate\"}" ->
         [overall_assessment |-> "Adequate"]
    [] outcome.content = "{\"overall_assessment\": \"Major gaps\"}" ->
         [overall_assessment |-> "Major gaps"]
    [] outcome.content = "null" -> None

\* C16: when an analyze request of a subject's document gets the
\* analyzer's answer, then either the call and the parse succeeded, the
\* document (while it is still stored) is written with status completed,
\* the parsed result and the analysis time, and the answer is 200 with the
\* result; or something failed, the document is written with status failed
\* and the error message, and the answer is 500 "Analysis failed: ...".
C16_StepAnalyze ==
  /\ \A r \in Analyzed :
       LET outcome == reqs'[r].analyzer_outcomes[1]
           stored  == WithId(documents, reqs[r].data.document_id)
       IN  /\ reqs[r].document # <<>>
           /\ reqs[r].document[1].user_id = reqs[r].user_id
           /\ IF ClaimSuccess(outcome)
              THEN /\ reqs'[r].pc = "return"
                   /\ \A k \in stored :
                        /\ documents'[k].analysis_status = "completed"
                        /\ Same(documents'[k].analysis_result, ClaimParsed(outcome))
                        /\ documents'[k].analyzed_at = now'
              ELSE /\ reqs'[r].pc = "done"
                   /\ reqs'[r].status_code = 500
                   /\ \A k \in stored :
                        /\ documents'[k].analysis_status = "failed"
                        /\ reqs'[r].detail =
                             "Analysis failed: " \o documents'[k].analysis_error
                        /\ outcome.kind = "raise" =>
                             documents'[k].analysis_error = outcome.error
  /\ \A r \in Returned :
       /\ ClaimSuccess(reqs[r].analyzer_outcomes[1])
       /\ reqs'[r].status_code = 200
       /\ Same(reqs'[r].response[1].analysis, ClaimParsed(reqs[r].analyzer_outcomes[1]))
       /\ reqs'[r].response[1].document_id = reqs[r].data.document_id
       /\ documents' = documents

C16_AnalyzeOutcomes == [][C16_StepAnalyze]_vars

\* C16 witness: an analyze request was answered 200 with the parsed
\* result, and another, whose analyzer reply was no JSON, 500; the
\* document they named is stored as failed with the parse error.
C16_Witness ==
  \E r1, r2 \in DOMAIN reqs :
    /\ reqs[r1].op = "analyze" /\ reqs[r1].status_code = 200
    /\ Same(reqs[r1].response[1].analysis, [overall_assessment |-> "Major gaps"])
    /\ reqs[r1].response[1].analyzed_at = isoformat(now)
    /\ reqs[r2].op = "analyze" /\ reqs[r2].status_code = 500
    /\ reqs[r2].analyzer_outcomes[1].kind = "reply"
    /\ reqs[r2].detail = "Analysis failed: Expecting value: line 1 column 1 (char 0)"
    /\ \E k \in WithId(documents, reqs[r2].data.document_id) :
         /\ documents[k].analysis_status = "failed"
         /\ documents[k].analysis_error = "Expecting value: line 1 column 1 (char 0)"
         /\ documents[k].analyzed_at = now

\* C17: an analyze request calls the analyzer at most once; a failed
\* document stays failed in every step that is not the write of an analyze
\* request for it; and the write of an analyze request that succeeded
\* turns a failed document completed, with the new result.
C17_StepRetry ==
  /\ \A r \in DOMAIN reqs' :
       reqs'[r].op = "analyze" =>
         /\ Len(reqs'[r].analyzer_outcomes) <= 1
         /\ reqs'[r].pc = "call" => reqs'[r].analyzer_outcomes = <<>>
         /\ reqs'[r].pc = "return" => Len(reqs'[r].analyzer_outcomes) = 1
  /\ \A k \in DOMAIN documents :
       documents[k].analysis_status = "failed" =>
         /\ \A j \in WithId(documents', documents[k].id) :
              documents'[j].analysis_status # "failed" =>
                \E r \in Analyzed : reqs[r].data.document_id = documents[k].id
         /\ \A r \in Analyzed :
              /\ reqs[r].data.document_id = documents[k].id
              /\ ClaimSuccess(reqs'[r].analyzer_outcomes[1])
              => /\ documents'[k].analysis_status = "completed"
                 /\ Same(documents'[k].analysis_result,
                         ClaimParsed(reqs'[r].analyzer_outcomes[1]))

C17_FailedUntilRetry == [][C17_StepRetry]_vars

\* C17 witness: an analyze request of a document failed, a later analyze
\* request of the same document succeeded, and the document is completed.
C17_Witness ==
  \E r1, r2 \in DOMAIN reqs :
    /\ r1 < r2
    /\ reqs[r1].op = "analyze" /\ reqs[r2].op = "analyze"
    /\ reqs[r1].data.document_id = reqs[r2].data.document_id
    /\ reqs[r1].status_code = 500 /\ reqs[r2].status_code = 200
    /\ \E k \in WithId(documents, reqs[r2].data.document_id) :
         /\ documents[k].analysis_status = "completed"
         /\ Same(documents[k].analysis_result, reqs[r2].response[1].analysis)
         /\ "analysis_error" \in DOMAIN documents[k]

\* C18: an analyze or delete request for an id under which the subject
\* has no document (no document at all, or another subject's) is answered
\* with 404, leaves db.documents as it was and makes no analyzer call; a
\* delete request for a document of the subject removes that document and
\* no other.
C18_StepNotFoundOrDelete ==
  /\ \A r \in Started :
       r.op \in {"analyze", "delete"} =>
         /\ OwnDocuments(r) = {} =>
              /\ r.pc = "done" /\ r.status_code = 404
              /\ documents' = documents
         /\ r.op = "delete" /\ OwnDocuments(r) # {} =>
              /\ r.status_code = 200
              /\ Len(documents') = Len(documents) - 1
              /\ documents' =
                   SelectSeq(documents, LAMBDA doc : doc.id # r.data.document_id)
  /\ \A r \in DOMAIN reqs' :
       reqs'[r].status_code = 404 => reqs'[r].analyzer_outcomes = <<>>

C18_NotFoundAndDelete == [][C18_StepNotFoundOrDelete]_vars

\* C18 witness: a subject's delete of another subject's document was
\* answered 404, the owner's later delete of the same document 200, and
\* another document is still stored.
C18_Witness ==
  \E r1, r2 \in DOMAIN reqs :
    /\ r1 < r2
    /\ reqs[r1].op = "delete" /\ reqs[r2].op = "delete"
    /\ reqs[r1].data.document_id = reqs[r2].data.document_id
    /\ reqs[r1].user_id # reqs[r2].user_id
    /\ reqs[r1].status_code = 404 /\ reqs[r2].status_code = 200
    /\ WithId(documents, reqs[r2].data.document_id) = {}

\* C19: the analysis_status of a stored document is pending, completed or
\* failed; it is pending when the document is stored; it changes only in
\* the write of an analyze request for the document; it never becomes
\* pending again; filename, media type, size and content never change.
C19_StepLifecycle ==
  /\ \A j \in DOMAIN documents' :
       /\ documents'[j].analysis_status \in {"pending", "completed", "failed"}
       /\ WithId(documents, documents'[j].id) = {} =>
            documents'[j].analysis_status = "pending"
  /\ \A k \in DOMAIN documents :
       \A j \in WithId(documents', documents[k].id) :
         /\ documents'[j].filename = documents[k].filename
         /\ documents'[j].file_type = documents[k].file_type
         /\ documents'[j].file_size = documents[k].file_size
         /\ documents'[j].content_base64 = documents[k].content_base64
         /\ documents'[j].analysis_status # documents[k].analysis_status =>
              \E r \in Analyzed : reqs[r].data.document_id = documents[k].id
         /\ documents[k].analysis_status # "pending" =>
              documents'[j].analysis_status # "pending"

C19_StatusLifecycle == [][C19_StepLifecycle]_vars

\* C19 witness: a document that an analyze request completed has been
\* failed by a later analyze request, and still has its upload fields.
C19_Witness ==
  \E r0, r1, r2 \in DOMAIN reqs :
    /\ r0 < r1 /\ r1 < r2
    /\ reqs[r0].op = "upload" /\ reqs[r0].status_code = 200
    /\ reqs[r1].op = "analyze" /\ reqs[r2].op = "analyze"
    /\ reqs[r1].data.document_id = reqs[r0].document[1].id
    /\ reqs[r2].data.document_id = reqs[r0].document[1].id
    /\ reqs[r1].status_code = 200 /\ reqs[r2].status_code = 500
    /\ \E k \in WithId(documents, reqs[r0].document[1].id) :
         /\ documents[k].analysis_status = "failed"
         /\ documents[k].filename = reqs[r0].data.filename
         /\ documents[k].file_size = Len(reqs[r0].data.content)

(***************************************************************************)
(* Dashboard aggregator: get_dashboard.                                    *)
(***************************************************************************)
(* find({"user_id": user_id}): the user's documents of a collection, in    *)
(* the collection's order.                                                 *)
find(collection, user_id) ==
  SelectSeq(collection, LAMBDA doc : doc.user_id = user_id)

(* sort("created_at", -1) over the documents at the positions left: the    *)
(* orders the store may return.  The sort key is created_at alone, and the *)
(* store fixes no order among documents of equal created_at, so each of    *)
(* the newest documents left may come first.                               *)
RECURSIVE sort_created_at_from(_, _)
sort_created_at_from(docs, left) ==
  IF left = {} THEN {<<>>}
  ELSE LET newest == {i \in left :
                        \A j \in left : docs[i].created_at >= docs[j].created_at}
       IN  UNION {{<<docs[i]>> \o rest : rest \in sort_created_at_from(docs, left \ {i})} :
                    i \in newest}

(* sort("created_at", -1): the set of orders the store may return. *)
sort_created_at(docs) == sort_created_at_from(docs, DOMAIN docs)

(* to_list(length) *)
to_list(docs, length) == SubSeq(docs, 1, IF Len(docs) < length THEN Len(docs) ELSE length)

(* The projection {"content_base64": 0}. *)
without_content(doc) == [f \in DOMAIN doc \ {"content_base64"} |-> doc[f]]

(* Mutant of find_one_latest: the sort is left out, the first stored       *)
(* document of the user is returned.                                       *)
find_one_unsorted(collection, user_id) == {to_list(find(collection, user_id), 1)}

(* find_one({"user_id": user_id}, sort=[("created_at", -1)]): the answers  *)
(* the store may give, <<>> for None and <<document>> otherwise.           *)
find_one_latest(collection, user_id) ==
  {to_list(sorted, 1) : sorted \in sort_created_at(find(collection, user_id))}

(* The loop over risk_register["risks"] that fills risk_stats. *)
RECURSIVE risk_stats(_, _)
risk_stats(risks, stats) ==
  IF risks = <<>> THEN stats
  ELSE LET status == Head(risks).status
           counted == IF status \in DOMAIN stats
                      THEN [stats EXCEPT ![status] = @ + 1]
                      ELSE (status :> 1) @@ stats
       IN  risk_stats(Tail(risks), [counted EXCEPT !["total"] = @ + 1])

(* The priority action of a gap. *)
compliance_gap(gap_) ==
  [type        |-> "compliance_gap",
   category    |-> gap_.category,
   subcategory |-> gap_.subcategory,
   description |-> gap_.question,
   guidance    |-> gap_.guidance,
   priority    |-> gap_.priority]

(* The priority action of a pending document. *)
pending_analysis(doc) ==
  [type        |-> "pending_analysis",
   category    |-> "Documents",
   description |-> "Analyze document: " \o doc.filename,
   document_id |-> doc.id,
   priority    |-> "medium"]

(* latest_health_check["gaps"][:5], or nothing without a health check. *)
top_gaps(latest_health_check) ==
  IF latest_health_check = <<>> THEN <<>>
  ELSE to_list(latest_health_check[1].gaps, 5)

(* [d for d in documents if d.get("analysis_status") == "pending"][:3] *)
pending_docs(docs) ==
  to_list(SelectSeq(docs, LAMBDA d : d.analysis_status = "pending"), 3)

(* The answer of get_dashboard, from what its three store reads returned. *)
get_dashboard(user_id, latest_health_check, risk_register, docs) ==
  LET score(field) == IF latest_health_check = <<>> THEN None
                      ELSE latest_health_check[1][field]
      stats == risk_stats(IF risk_register = <<>> THEN <<>> ELSE risk_register[1].risks,
                          [key \in {"identified", "mitigating", "resolved",
                                    "accepted", "total"} |-> 0])
      gaps == top_gaps(latest_health_check)
      pending == pending_docs(docs)
  IN  [user                   |-> [user_id |-> user_id],
       compliance_score       |-> score("compliance_score"),
       gdpr_score             |-> score("gdpr_score"),
       cyber_essentials_score |-> score("cyber_essentials_score"),
       risk_level             |-> score("risk_level"),
       last_health_check      |-> IF latest_health_check = <<>> THEN None
                                  ELSE isoformat(latest_health_check[1].created_at),
       risk_stats             |-> stats,
       total_documents        |-> Len(docs),
       analyzed_documents     |->
         Len(SelectSeq(docs, LAMBDA d : d.analysis_status = "completed")),
       priority_actions       |->
         [i \in 1..Len(gaps) |-> compliance_gap(gaps[i])]
           \o [i \in 1..Len(pending) |-> pending_analysis(pending[i])],
       recent_documents       |-> to_list(docs, 5)]

(* GET /dashboard, up to its first store call:                             *)
(* db.health_checks.find_one({"user_id": ...}, sort=[("created_at", -1)]). *)
Dashboard(user_id) ==
  /\ Len(reqs) < MaxCalls
  /\ \E latest_health_check \in find_one_latest(health_checks, user_id) :
       reqs' = Append(reqs, [op                  |-> "dashboard",
                             user_id             |-> user_id,
                             pc                  |-> "risk_register",
                             latest_health_check |-> latest_health_check,
                             risk_register       |-> <<>>,
                             documents           |-> <<>>,
                             status_code         |-> 0,
                             response            |-> <<>>])
  /\ UNCHANGED <<user_sessions, documents, catalog, health_checks, risk_registers, users, uuids, now>>

(* db.risk_registers.find_one({"user_id": ...}): a register of the user,   *)
(* or None.                                                                *)
DashboardRegister(r) ==
  /\ reqs[r].op = "dashboard" /\ reqs[r].pc = "risk_register"
  /\ IF matching(risk_registers, reqs[r].user_id) = {}
     THEN reqs' = [reqs EXCEPT ![r].pc = "documents"]
     ELSE \E k \in matching(risk_registers, reqs[r].user_id) :
            reqs' = [reqs EXCEPT ![r].pc = "documents",
                                 ![r].risk_register = <<risk_registers[k]>>]
  /\ UNCHANGED <<user_sessions, documents, catalog, health_checks, risk_registers, users, uuids, now>>

(* db.documents.find({"user_id": ...}, {"content_base64": 0})              *)
(* .sort("created_at", -1).to_list(10), then the answer is built from the  *)
(* three reads and returned.                                               *)
DashboardDocuments(r) ==
  /\ reqs[r].op = "dashboard" /\ reqs[r].pc = "documents"
  /\ \E sorted \in sort_created_at(find(documents, reqs[r].user_id)) :
       LET newest == to_list(sorted, 10)
           docs == [i \in DOMAIN newest |-> without_content(newest[i])]
       IN  reqs' = [reqs EXCEPT
                      ![r].pc = "done",
                      ![r].documents = docs,
                      ![r].status_code = 200,
                      ![r].response =
                        <<get_dashboard(reqs[r].user_id, reqs[r].latest_health_check,
                                        reqs[r].risk_register, docs)>>]
  /\ UNCHANGED <<user_sessions, documents, catalog, health_checks, risk_registers, users, uuids, now>>

(***************************************************************************)
(* The dashboard over stores of up to MaxDocs documents.  The initial      *)
(* store holds the documents that n uploads, each followed or not by an    *)
(* analysis, leave behind; health checks are submitted as the run goes.    *)
(***************************************************************************)
MaxDocs == 12

MaxSubmits == 2

MaxDashboards == 2

MaxNow == MaxDocs + 1

(* The clock advances. *)
Tick ==
  /\ now < MaxNow
  /\ now' = now + 1
  /\ UNCHANGED <<user_sessions, documents, catalog, health_checks, risk_registers, users, reqs, uuids>>

(* The i-th document of the initial store: who uploaded it, when, and      *)
(* what its analysis, if any, left.                                        *)
UploadedDocument(i, owners, times, statuses) ==
  LET user_id == IF owners = "two" /\ i % 4 = 0 THEN "user_b" ELSE "user_a"
      created_at == IF times = "first_two_tied" /\ i <= 2 THEN 1 ELSE i
      analysis_status ==
        CASE statuses = "all_pending" -> "pending"
          [] statuses = "oldest_pending" -> IF i = 1 THEN "pending" ELSE "completed"
          [] OTHER -> IF i % 3 = 1 THEN "pending"
                      ELSE IF i % 3 = 2 THEN "completed" ELSE "failed"
      document ==
        new_document(user_id,
                     [filename     |-> "policy-" \o ToString(i) \o ".pdf",
                      content_type |-> "application/pdf",
                      content      |-> <<80, 68, 70>>],
                     uuid4(i), created_at)
  IN  CASE analysis_status = "pending" -> document
        [] analysis_status = "completed" ->
             analysis_completed([overall_assessment |-> "Adequate"], created_at)
               @@ document
        [] OTHER -> analysis_failed("Connection error.") @@ document

(* The sizes of the initial store. *)
DocumentCounts == {0, 2, MaxDocs - 1, MaxDocs}

DocumentStores ==
  {[i \in 1..n |-> UploadedDocument(i, kind[1], kind[2], kind[3])] :
     n \in DocumentCounts,
     kind \in {<<"one", "distinct", "all_pending">>,
               <<"one", "distinct", "oldest_pending">>,
               <<"two", "first_two_tied", "mixed">>,
               <<"two", "first_two_tied", "all_pending">>}}

(* The health checks submitted: the first n questions answered no. *)
DashboardPayloads == {Bulk(ALL_QUESTIONS, n, FALSE) : n \in {3, 30}}

InitDash ==
  /\ catalog = ALL_QUESTIONS
  /\ health_checks = <<>>
  /\ risk_registers = <<>>
  /\ documents \in DocumentStores
  /\ user_sessions = <<>>
  /\ users = [u \in Users |-> [business_type |-> None, industry |-> None]]
  /\ reqs = <<>>
  /\ uuids = Len(documents)
  /\ now = MaxDocs

(* user_a submits health checks and reads its dashboard; user_b submits   *)
(* health checks of its own.                                               *)
NextDash ==
  \/ /\ Len(health_checks) < MaxSubmits
     /\ \/ \E responses \in DashboardPayloads : Submit("user_a", responses)
        \/ Submit("user_b", Bulk(ALL_QUESTIONS, 7, FALSE))
  \/ /\ Len(reqs) < MaxDashboards
     /\ Idle
     /\ Dashboard("user_a")
  \/ \E r \in DOMAIN reqs : DashboardRegister(r)
  \/ \E r \in DOMAIN reqs : DashboardDocuments(r)
  \/ Tick

SpecDash == InitDash /\ [][NextDash]_vars

(***************************************************************************)
(* Properties of the dashboard.                                            *)
(***************************************************************************)
\* The positions of a subject's documents in a collection.
Own(collection, user_id) ==
  {k \in DOMAIN collection : collection[k].user_id = user_id}

\* The number of leading compliance_gap entries of a feed.
GapEntries(feed) ==
  Cardinality({i \in DOMAIN feed :
                 \A j \in 1..i : feed[j].type = "compliance_gap"})

\* The feed shows the first min(5, number of gaps) gaps of the health
\* check h, in their stored order.
ShowsGapsOf(feed, g, h) ==
  /\ g = IF Len(h.gaps) < 5 THEN Len(h.gaps) ELSE 5
  /\ \A i \in 1..g :
       /\ feed[i].category = h.gaps[i].category
       /\ feed[i].subcategory = h.gaps[i].subcategory
       /\ feed[i].description = h.gaps[i].question
       /\ feed[i].guidance = h.gaps[i].guidance
       /\ feed[i].priority = h.gaps[i].priority

\* The position in db.documents of the document a pending_analysis entry
\* names.
Named(entry) == CHOOSE k \in DOMAIN documents : documents[k].id = entry.document_id

\* The dashboard requests a step answers.
DashboardAnswered ==
  {reqs'[r] : r \in {n \in DOMAIN reqs : /\ reqs[n].op = "dashboard"
                                          /\ reqs[n].pc = "documents"
                                          /\ n \in DOMAIN reqs'
                                          /\ reqs'[n].pc = "done"}}

\* The subject's stored health checks of the greatest created_at.
Newest(user_id) ==
  {k \in Own(health_checks, user_id) :
     \A j \in Own(health_checks, user_id) :
       health_checks[j].created_at <= health_checks[k].created_at}

\* The first five gaps of a health check.
FirstFive(h) == SubSeq(h.gaps, 1, IF Len(h.gaps) < 5 THEN Len(h.gaps) ELSE 5)

\* The composition of the feed: a dashboard request reads one of the
\* subject's newest health checks (nothing without one); its feed is the
\* first min(5, number of gaps) gaps of that health check in stored order,
\* followed by at most 3 pending_analysis entries of priority medium, each
\* for a pending document among the subject's 10 newest, newest first,
\* none left out while fewer than 3 are shown; and it has at most 8
\* entries.
C20_StepComposition ==
  /\ \A r \in Started :
       r.op = "dashboard" =>
         IF Own(health_checks, r.user_id) = {} THEN r.latest_health_check = <<>>
         ELSE \E k \in Newest(r.user_id) : r.latest_health_check = <<health_checks[k]>>
  /\ \A r \in DashboardAnswered :
       LET feed == r.response[1].priority_actions
           g == GapEntries(feed)
           docs == Own(documents, r.user_id)
           pending == {i \in DOMAIN feed : i > g}
           newer(k) == {j \in docs : documents[j].created_at > documents[k].created_at}
           not_older(k) == {j \in docs \ {k} :
                              documents[j].created_at >= documents[k].created_at}
       IN  /\ Len(feed) <= 8
           /\ IF r.latest_health_check = <<>> THEN g = 0
              ELSE ShowsGapsOf(feed, g, r.latest_health_check[1])
           /\ Cardinality(pending) <= 3
           /\ \A i \in pending :
                /\ feed[i].type = "pending_analysis"
                /\ feed[i].priority = "medium"
                /\ \E k \in docs : documents[k].id = feed[i].document_id
                /\ documents[Named(feed[i])].analysis_status = "pending"
                /\ Cardinality(newer(Named(feed[i]))) < 10
                /\ \A j \in pending :
                     /\ i < j => documents[Named(feed[i])].created_at
                                   >= documents[Named(feed[j])].created_at
                     /\ i # j => feed[i].document_id # feed[j].document_id
           /\ \A k \in docs :
                /\ documents[k].analysis_status = "pending"
                /\ Cardinality(not_older(k)) < 10
                /\ \A i \in pending : feed[i].document_id # documents[k].id
                => /\ Cardinality(pending) = 3
                   /\ \A i \in pending :
                        documents[Named(feed[i])].created_at >= documents[k].created_at

\* The stored state admits one feed only: every newest health check of the
\* subject has the first five gaps of the one read; the pending documents
\* shown have different creation times; and no pending document left out
\* was created at the time of one shown or, while fewer than 3 are shown,
\* has fewer than 10 newer documents.
C20_StepDeterminism ==
  /\ \A r \in Started :
       r.op = "dashboard" =>
         \A k \in Newest(r.user_id) :
           FirstFive(health_checks[k]) = FirstFive(r.latest_health_check[1])
  /\ \A r \in DashboardAnswered :
       LET feed == r.response[1].priority_actions
           pending == {i \in DOMAIN feed : i > GapEntries(feed)}
           docs == Own(documents, r.user_id)
           shown == {Named(feed[i]) : i \in pending}
           newer(k) == {j \in docs : documents[j].created_at > documents[k].created_at}
       IN  /\ \A k, j \in shown :
                k # j => documents[k].created_at # documents[j].created_at
           /\ \A k \in docs \ shown :
                documents[k].analysis_status = "pending" =>
                  /\ \A j \in shown : documents[k].created_at # documents[j].created_at
                  /\ Cardinality(pending) < 3 => Cardinality(newer(k)) >= 10

\* C20: the feed of a dashboard request is the first min(5, number of
\* gaps) gaps of the subject's latest health check in stored order (none
\* without a health check), followed by at most 3 pending_analysis entries
\* of priority medium, each for a pending document among the subject's 10
\* newest; the feed has at most 8 entries; and identical stored state
\* yields an identical feed.
C20_StepFeed == C20_StepComposition /\ C20_StepDeterminism

C20_PriorityFeed == [][C20_StepFeed]_vars

(***************************************************************************)
(* The dashboard's risk tally: user_a generates, updates and reads its     *)
(* dashboard, one request after another; user_b reads its dashboard.       *)
(***************************************************************************)
NextTally ==
  \/ /\ Idle
     /\ GenerateDelete("user_a", [business_type |-> Retail, industry |-> None])
  \/ \E r \in DOMAIN reqs : GenerateInsert(r)
  \/ \E r \in DOMAIN reqs : GenerateProfile(r)
  \/ /\ Idle
     /\ \E risk_id \in KnownRiskIds("user_a"), update \in UpdateBodies :
          UpdateFind("user_a", risk_id, update)
  \/ \E r \in DOMAIN reqs : UpdateSave(r)
  \/ /\ Idle
     /\ \E user_id \in Users : Dashboard(user_id)
  \/ \E r \in DOMAIN reqs : DashboardRegister(r)
  \/ \E r \in DOMAIN reqs : DashboardDocuments(r)

SpecTally == Init /\ [][NextTally]_vars

\* The risks of the register a dashboard request read.
TalliedRisks(r) ==
  IF r.risk_register = <<>> THEN <<>> ELSE r.risk_register[1].risks

\* C21: the risk_stats of every dashboard answer count, for each of the
\* four statuses, the risks of the register in that status; total is the
\* number of risks and the sum of the four counts; without a register all
\* five numbers are 0.
C21_TallyMatchesRegister ==
  \A r \in DOMAIN reqs :
    reqs[r].op = "dashboard" /\ reqs[r].pc = "done" =>
      LET risks == TalliedRisks(reqs[r])
          stats == reqs[r].response[1].risk_stats
      IN  /\ \A status \in RiskStatuses :
               stats[status] =
                 Cardinality({i \in DOMAIN risks : risks[i].status = status})
          /\ stats["total"] = Len(risks)
          /\ stats["total"] = stats["identified"] + stats["mitigating"]
                                + stats["resolved"] + stats["accepted"]
          /\ reqs[r].risk_register = <<>> =>
               \A key \in DOMAIN stats : stats[key] = 0

(***************************************************************************)
(* Assessment history: submit_health_check, get_latest_health_check and    *)
(* get_dashboard, by two users, while the clock advances.                  *)
(***************************************************************************)
(* GET /health-check/latest: one store read; the answer is the health      *)
(* check, or None (<<>>).                                                  *)
Latest(user_id) ==
  /\ Len(reqs) < MaxCalls
  /\ \E health_check \in find_one_latest(health_checks, user_id) :
       reqs' = Append(reqs,
         [op          |-> "latest",
          user_id     |-> user_id,
          pc          |-> "done",
          status_code |-> 200,
          response    |-> health_check])
  /\ UNCHANGED <<user_sessions, documents, catalog, health_checks, risk_registers, users, uuids, now>>

HistoryPayloads == {Bulk(ALL_QUESTIONS, n, FALSE) : n \in {0, 3}}

InitHistory ==
  /\ catalog = ALL_QUESTIONS
  /\ health_checks = <<>>
  /\ risk_registers = <<>>
  /\ documents = <<>>
  /\ user_sessions = <<>>
  /\ users = [u \in Users |-> [business_type |-> None, industry |-> None]]
  /\ reqs = <<>>
  /\ uuids = 0
  /\ now = MaxNow - MaxSubmits

NextHistory ==
  \/ /\ Len(health_checks) < MaxSubmits
     /\ \/ \E responses \in HistoryPayloads : Submit("user_a", responses)
        \/ Submit("user_b", Bulk(ALL_QUESTIONS, 3, FALSE))
  \/ /\ Len(reqs) < MaxDashboards
     /\ Idle
     /\ \/ \E user_id \in Users : Latest(user_id)
        \/ Dashboard("user_a")
  \/ \E r \in DOMAIN reqs : DashboardRegister(r)
  \/ \E r \in DOMAIN reqs : DashboardDocuments(r)
  \/ Tick

SpecHistory == InitHistory /\ [][NextHistory]_vars

\* C22: a step never changes or removes a stored health check; a submit
\* adds exactly one, at the end; and the health check a latest or
\* dashboard request returns is one of the subject's stored health checks
\* with the greatest created_at, or nothing when the subject has none.
C22_StepHistory ==
  /\ Len(health_checks') >= Len(health_checks)
  /\ SubSeq(health_checks', 1, Len(health_checks)) = health_checks
  /\ health_checks' # health_checks =>
       /\ Len(health_checks') = Len(health_checks) + 1
       /\ health_checks'[Len(health_checks')].created_at = now
       /\ \A k \in DOMAIN health_checks :
            health_checks[k].id # health_checks'[Len(health_checks')].id
  /\ \A r \in Started :
       r.op \in {"latest", "dashboard"} =>
         LET returned == IF r.op = "latest" THEN r.response
                         ELSE r.latest_health_check
             mine == Own(health_checks, r.user_id)
         IN  /\ mine = {} <=> returned = <<>>
             /\ mine # {} =>
                  /\ \E k \in mine : health_checks[k] = returned[1]
                  /\ \A k \in mine :
                       health_checks[k].created_at <= returned[1].created_at
  /\ \A r \in DashboardAnswered :
       /\ r.response[1].compliance_score =
            IF r.latest_health_check = <<>> THEN None
            ELSE r.latest_health_check[1].compliance_score
       /\ r.response[1].risk_level =
            IF r.latest_health_check = <<>> THEN None
            ELSE r.latest_health_check[1].risk_level

C22_AppendOnlyLatest == [][C22_StepHistory]_vars

\* C22 witness: a subject with health checks of different creation times
\* got, from latest, one that is not the first it stored, while another
\* subject's latest request got nothing.
C22_Witness ==
  \E r1, r2 \in DOMAIN reqs :
    /\ reqs[r1].op = "latest" /\ reqs[r2].op = "latest"
    /\ reqs[r2].response = <<>>
    /\ reqs[r1].response # <<>>
    /\ \E k \in Own(health_checks, reqs[r1].user_id) :
         /\ health_checks[k].created_at < reqs[r1].response[1].created_at
         /\ health_checks[k].total_gaps # reqs[r1].response[1].total_gaps

(***************************************************************************)
(* Sessions: get_current_user, create_session and logout.  The clock       *)
(* counts days.  An Authorization header is the pair of its first seven    *)
(* characters and the rest, the two parts startswith("Bearer ") and [7:]   *)
(* look at, or <<>> when the request has no such header.                   *)
(***************************************************************************)
SessionDays == 7

HttpRequest(cookie, authorization) ==
  [cookies |-> cookie, authorization |-> authorization]

(* The token get_current_user takes from a request: the cookie when it is  *)
(* there and not empty, otherwise what follows "Bearer " in the header.    *)
session_token_of(request) ==
  IF request.cookies # None /\ request.cookies # ""
  THEN request.cookies
  ELSE IF request.authorization # <<>> /\ request.authorization[1] = "Bearer "
       THEN request.authorization[2]
       ELSE None

(* find_one({"session_token": session_token}) on db.user_sessions: the     *)
(* answers the store may give, <<>> for None and <<session>> otherwise.    *)
find_session(collection, session_token) ==
  LET hits == {k \in DOMAIN collection : collection[k].session_token = session_token}
  IN  IF hits = {} THEN {<<>>} ELSE {<<collection[k]>> : k \in hits}

(* Mutant of expired: a session never expires. *)
expired_never(expires_at, at) == FALSE

(* expires_at < datetime.now(timezone.utc) *)
expired(expires_at, at) == expires_at < at

(* A request in get_current_user, for the endpoint that depends on it. *)
CurrentUserRequest(endpoint, request, pc, session_doc, status_code, detail) ==
  [op          |-> "get_current_user",
   endpoint    |-> endpoint,
   user_id     |-> None,
   pc          |-> pc,
   request     |-> request,
   session_doc |-> session_doc,
   status_code |-> status_code,
   detail      |-> detail,
   response    |-> <<>>]

(* get_current_user, up to its first store call: without a token the       *)
(* request is answered 401; with one, db.user_sessions.find_one looks the  *)
(* token up.                                                               *)
GetCurrentUser(endpoint, request) ==
  /\ Len(reqs) < MaxCalls
  /\ LET session_token == session_token_of(request)
     IN  IF session_token = None \/ session_token = ""
         THEN reqs' = Append(reqs, CurrentUserRequest(endpoint, request, "done", <<>>,
                                                      401, "Not authenticated"))
         ELSE \E session_doc \in find_session(user_sessions, session_token) :
                reqs' = Append(reqs, CurrentUserRequest(endpoint, request, "find_one",
                                                        session_doc, 0, ""))
  /\ UNCHANGED <<catalog, health_checks, risk_registers, documents, user_sessions, users, uuids, now>>

(* get_current_user, from the session it found: 401 without one or with    *)
(* one whose expires_at is past; otherwise db.users.find_one looks the     *)
(* session's user up, and the request is answered 401 without such a user  *)
(* or handed to the endpoint with it.                                      *)
GetCurrentUserFind(r) ==
  /\ reqs[r].op = "get_current_user" /\ reqs[r].pc = "find_one"
  /\ LET session_doc == reqs[r].session_doc
         unauthenticated(detail) ==
           [reqs EXCEPT ![r].pc = "done", ![r].status_code = 401, ![r].detail = detail]
     IN  IF session_doc = <<>>
         THEN reqs' = unauthenticated("Invalid session")
         ELSE IF expired(session_doc[1].expires_at, now)
         THEN reqs' = unauthenticated("Session expired")
         ELSE IF session_doc[1].user_id \notin DOMAIN users
         THEN reqs' = unauthenticated("User not found")
         ELSE reqs' = [reqs EXCEPT ![r].pc = "return",
                                   ![r].user_id = session_doc[1].user_id,
                                   ![r].response =
                                     <<[user_id |-> session_doc[1].user_id]
                                         @@ users[session_doc[1].user_id]>>]
  /\ UNCHANGED <<catalog, health_checks, risk_registers, documents, user_sessions, users, uuids, now>>

(* The users get_current_user has returned to an endpoint whose handler    *)
(* has not started yet.                                                    *)
Depends(endpoint) ==
  {u \in DOMAIN users :
     Cardinality({r \in DOMAIN reqs : /\ reqs[r].op = "get_current_user"
                                      /\ reqs[r].endpoint = endpoint
                                      /\ reqs[r].pc = "return"
                                      /\ reqs[r].user_id = u})
       > Cardinality({r \in DOMAIN reqs : /\ reqs[r].op = endpoint
                                          /\ reqs[r].user_id = u})}

(* GET /auth/me, after get_current_user: the user it returned is the       *)
(* answer.                                                                 *)
Me(r) ==
  /\ reqs[r].op = "get_current_user" /\ reqs[r].endpoint = "me"
  /\ reqs[r].pc = "return"
  /\ reqs' = [reqs EXCEPT ![r].pc = "done", ![r].status_code = 200]
  /\ UNCHANGED <<catalog, health_checks, risk_registers, documents, user_sessions, users, uuids, now>>

(* uuid.uuid4().hex, of the n-th value issued: 32 characters, of which the *)
(* first tell the values apart.                                            *)
uuid4_hex(n) == SubSeq(ToString(n) \o "0123456789abcdef0123456789abcdef", 1, 32)

(* What the auth service can do with a session id: answer 200 with the     *)
(* identity behind it, with or without a session_token of its own making,  *)
(* answer another status, or not answer.                                   *)
AuthServiceOutcomes(session_id, n) ==
  LET identity ==
        CASE session_id = "sid-alice" ->
               <<[email |-> "alice@example.com", name |-> "Alice", picture |-> None]>>
          [] session_id = "sid-bob" ->
               <<[email |-> "bob@example.com", name |-> "Bob", picture |-> "bob.png"]>>
          [] OTHER -> <<>>
  IN  {[kind |-> "request_error"]}
        \cup (IF identity = <<>>
              THEN {[kind |-> "response", status_code |-> 404]}
              ELSE {[kind |-> "response", status_code |-> 200,
                     auth_data |-> identity[1]],
                    [kind |-> "response", status_code |-> 200,
                     auth_data |-> [session_token |-> "st-" \o ToString(n)]
                                     @@ identity[1]]})

(* The users with an email. *)
users_with_email(email) == {u \in DOMAIN users : users[u].email = email}

(* The document create_session inserts for a new user. *)
new_user(auth_data, created_at) ==
  [email          |-> auth_data.email,
   name           |-> auth_data.name,
   picture        |-> auth_data.picture,
   company_name   |-> None,
   business_type  |-> None,
   employee_count |-> None,
   industry       |-> None,
   created_at     |-> created_at]

(* POST /auth/session, up to its first store call: the auth service is     *)
(* asked; without an answer the request fails with 500, with a status      *)
(* other than 200 with 401.                                                *)
CreateSession(session_id, outcome) ==
  /\ Len(reqs) < MaxCalls
  /\ LET request(pc, auth_data, status_code, detail) ==
           [op            |-> "create_session",
            user_id       |-> None,
            pc            |-> pc,
            data          |-> [session_id |-> session_id],
            auth_data     |-> auth_data,
            existing_user |-> <<>>,
            session_token |-> None,
            expires_at    |-> 0,
            status_code   |-> status_code,
            detail        |-> detail,
            set_cookie    |-> None,
            response      |-> <<>>]
     IN  IF outcome.kind = "request_error"
         THEN reqs' = Append(reqs, request("done", <<>>, 500,
                                           "Authentication service unavailable"))
         ELSE IF outcome.status_code # 200
         THEN reqs' = Append(reqs, request("done", <<>>, 401, "Invalid session ID"))
         ELSE reqs' = Append(reqs, request("find_one", <<outcome.auth_data>>, 0, ""))
  /\ UNCHANGED <<catalog, health_checks, risk_registers, documents, user_sessions, users, uuids, now>>

(* db.users.find_one({"email": auth_data["email"]}) *)
CreateSessionFind(r) ==
  /\ reqs[r].op = "create_session" /\ reqs[r].pc = "find_one"
  /\ LET existing == users_with_email(reqs[r].auth_data[1].email)
     IN  IF existing = {}
         THEN reqs' = [reqs EXCEPT ![r].pc = "insert_one"]
         ELSE \E u \in existing :
                reqs' = [reqs EXCEPT ![r].pc = "update_one",
                                     ![r].existing_user = <<[user_id |-> u] @@ users[u]>>]
  /\ UNCHANGED <<catalog, health_checks, risk_registers, documents, user_sessions, users, uuids, now>>

(* The user exists: db.users.update_one({"email": ...}, {"$set": {"name":  *)
(* ..., "picture": ...}}) on a user with the email.                        *)
CreateSessionUpdate(r) ==
  /\ reqs[r].op = "create_session" /\ reqs[r].pc = "update_one"
  /\ LET auth_data == reqs[r].auth_data[1]
         existing == users_with_email(auth_data.email)
     IN  IF existing = {} THEN users' = users
         ELSE \E u \in existing :
                users' = [users EXCEPT ![u] = [@ EXCEPT !.name = auth_data.name,
                                                        !.picture = auth_data.picture]]
  /\ reqs' = [reqs EXCEPT ![r].pc = "delete_many",
                          ![r].user_id = reqs[r].existing_user[1].user_id]
  /\ UNCHANGED <<catalog, health_checks, risk_registers, documents, user_sessions, uuids, now>>

(* The user is new: user_id is "user_" and the first 12 characters of a    *)
(* uuid4().hex, and db.users.insert_one(new_user).                         *)
CreateSessionInsert(r) ==
  /\ reqs[r].op = "create_session" /\ reqs[r].pc = "insert_one"
  /\ LET user_id == "user_" \o SubSeq(uuid4_hex(uuids + 1), 1, 12)
     IN  /\ users' = (user_id :> new_user(reqs[r].auth_data[1], now)) @@ users
         /\ reqs' = [reqs EXCEPT ![r].pc = "delete_many", ![r].user_id = user_id]
  /\ uuids' = uuids + 1
  /\ UNCHANGED <<catalog, health_checks, risk_registers, documents, user_sessions, now>>

(* session_token is auth_data.get("session_token", f"session_{uuid.uuid4() *)
(* .hex}"), whose default is evaluated, and a uuid drawn, with or without  *)
(* a token of the service; expires_at is SessionDays from now; then        *)
(* db.user_sessions.delete_many({"user_id": user_id}).                     *)
CreateSessionDelete(r) ==
  /\ reqs[r].op = "create_session" /\ reqs[r].pc = "delete_many"
  /\ LET auth_data == reqs[r].auth_data[1]
         default == "session_" \o uuid4_hex(uuids + 1)
     IN  reqs' = [reqs EXCEPT ![r].pc = "insert_session",
                              ![r].session_token =
                                IF "session_token" \in DOMAIN auth_data
                                THEN auth_data.session_token ELSE default,
                              ![r].expires_at = now + SessionDays]
  /\ uuids' = uuids + 1
  /\ user_sessions' = delete_many(user_sessions, reqs[r].user_id)
  /\ UNCHANGED <<catalog, health_checks, risk_registers, documents, users, now>>

(* db.user_sessions.insert_one({"user_id": ..., "session_token": ...,      *)
(* "expires_at": ..., "created_at": datetime.now(timezone.utc)})           *)
CreateSessionStore(r) ==
  /\ reqs[r].op = "create_session" /\ reqs[r].pc = "insert_session"
  /\ user_sessions' = insert_one(user_sessions,
                                 [user_id       |-> reqs[r].user_id,
                                  session_token |-> reqs[r].session_token,
                                  expires_at    |-> reqs[r].expires_at,
                                  created_at    |-> now])
  /\ reqs' = [reqs EXCEPT ![r].pc = "return"]
  /\ UNCHANGED <<catalog, health_checks, risk_registers, documents, users, uuids, now>>

(* The token is set as cookie, db.users.find_one({"user_id": user_id}) is  *)
(* read and returned.                                                      *)
CreateSessionReturn(r) ==
  /\ reqs[r].op = "create_session" /\ reqs[r].pc = "return"
  /\ reqs' = [reqs EXCEPT
                ![r].pc = "done",
                ![r].status_code = 200,
                ![r].set_cookie = reqs[r].session_token,
                ![r].response =
                  <<[message |-> "Session created",
                     user    |-> IF reqs[r].user_id \in DOMAIN users
                                 THEN [user_id |-> reqs[r].user_id] @@ users[reqs[r].user_id]
                                 ELSE None]>>]
  /\ UNCHANGED <<catalog, health_checks, risk_registers, documents, user_sessions, users, uuids, now>>

(* POST /auth/logout: the sessions with the cookie's token are deleted;    *)
(* the Authorization header is not read.                                   *)
Logout(request) ==
  /\ Len(reqs) < MaxCalls
  /\ LET session_token == request.cookies
     IN  user_sessions' =
           IF session_token # None /\ session_token # ""
           THEN SelectSeq(user_sessions,
                          LAMBDA doc : doc.session_token # session_token)
           ELSE user_sessions
  /\ reqs' = Append(reqs,
       [op          |-> "logout",
        user_id     |-> None,
        pc          |-> "done",
        request     |-> request,
        status_code |-> 200,
        detail      |-> "",
        response    |-> <<[message |-> "Logged out successfully"]>>])
  /\ UNCHANGED <<catalog, health_checks, risk_registers, documents, users, uuids, now>>

(***************************************************************************)
(* The endpoints behind get_current_user, with clients that present the    *)
(* tokens issued so far, a forged one or none, while days pass.  Alice     *)
(* has an account, user_a, and a session she created SessionDays days     *)
(* ago, in its last day; Bob gets his account at his first login.          *)
(***************************************************************************)
PolicyFile ==
  [filename |-> "privacy-policy.pdf", content_type |-> "application/pdf",
   content |-> <<80, 68, 70>>]

RetailBody == [business_type |-> Retail, industry |-> None]

AliceToken == "st-0"

(* The tokens the clients hold: Alice's, and those set as cookie since. *)
TokenInputs ==
  {reqs[r].set_cookie :
     r \in {n \in DOMAIN reqs : reqs[n].op = "create_session"
                                /\ reqs[n].status_code = 200}}
    \cup {AliceToken}

(* A token in the cookie, Alice's or a forged one. *)
CookieRequests == {HttpRequest(t, <<>>) : t \in {AliceToken, "forged"}}

(* A token in the cookie or in the Authorization header, well-formed or    *)
(* not, alone or next to another cookie; or no token.                      *)
AnyRequests ==
  {HttpRequest(None, <<>>),
   HttpRequest(None, <<"Basic d", AliceToken>>),
   HttpRequest("", <<"Bearer ", AliceToken>>),
   HttpRequest("forged", <<"Bearer ", AliceToken>>),
   HttpRequest(None, <<"Bearer ", AliceToken>>)}
    \cup {HttpRequest(t, <<>>) : t \in TokenInputs}

LogoutRequests ==
  {HttpRequest(AliceToken, <<>>),
   HttpRequest(None, <<"Bearer ", AliceToken>>)}

InitAuth ==
  /\ catalog = ALL_QUESTIONS
  /\ health_checks = <<>>
  /\ risk_registers = <<>>
  /\ documents = <<>>
  /\ now = MaxNow - 1
  /\ user_sessions = <<[user_id       |-> "user_a",
                        session_token |-> AliceToken,
                        expires_at    |-> now,
                        created_at    |-> now - SessionDays]>>
  /\ users = ("user_a" :> new_user([email   |-> "alice@example.com",
                                    name    |-> "Alice",
                                    picture |-> None], now - SessionDays))
  /\ reqs = <<>>
  /\ uuids = 0

(* The requests in flight: not answered yet, or waiting for their handler  *)
(* to start.                                                               *)
Unanswered ==
  {r \in DOMAIN reqs :
     /\ reqs[r].pc # "done"
     /\ (reqs[r].op = "get_current_user" /\ reqs[r].pc = "return"
           /\ reqs[r].endpoint # "me")
          => reqs[r].user_id \in Depends(reqs[r].endpoint)}

(* A client sends a request while at most one other is in flight; the     *)
(* logins, two at most, come first.                                        *)
Admitted == \A r1, r2 \in Unanswered : r1 = r2

(* Alice logs in with a token of the service, Bob with or without one. *)
Logins ==
  {login \in {<<session_id, outcome>> :
                session_id \in {"sid-alice", "sid-bob", "sid-unknown"},
                outcome \in UNION {AuthServiceOutcomes(sid, Len(reqs) + 1) :
                                     sid \in {"sid-alice", "sid-bob", "sid-unknown"}}} :
     /\ login[2] \in AuthServiceOutcomes(login[1], Len(reqs) + 1)
     /\ login[2].kind = "request_error" => login[1] = "sid-unknown"
     /\ login[1] = "sid-alice" => "session_token" \in DOMAIN login[2].auth_data}

NextAuth ==
  \/ /\ Admitted
     /\ \A r1, r2 \in DOMAIN reqs : r1 = r2 /\ reqs[r1].op = "create_session"
     /\ \E login \in Logins : CreateSession(login[1], login[2])
  \/ \E r \in DOMAIN reqs : CreateSessionFind(r)
  \/ \E r \in DOMAIN reqs : CreateSessionUpdate(r)
  \/ \E r \in DOMAIN reqs : CreateSessionInsert(r)
  \/ \E r \in DOMAIN reqs : CreateSessionDelete(r)
  \/ \E r \in DOMAIN reqs : CreateSessionStore(r)
  \/ \E r \in DOMAIN reqs : CreateSessionReturn(r)
  \/ /\ Admitted
     /\ \E request \in LogoutRequests : Logout(request)
  \/ /\ Admitted
     /\ \E request \in AnyRequests : GetCurrentUser("me", request)
  \/ /\ Admitted
     /\ \E request \in CookieRequests : GetCurrentUser("upload", request)
  \/ \E r \in DOMAIN reqs : GetCurrentUserFind(r)
  \/ \E r \in DOMAIN reqs : Me(r)
  \/ \E user_id \in Depends("upload") : Upload(user_id, PolicyFile)
  \/ /\ Admitted
     /\ Tick

SpecAuth == InitAuth /\ [][NextAuth]_vars

(***************************************************************************)
(* Claims about sessions.                                                  *)
(***************************************************************************)
\* The tokens a request carries, in the cookie or after "Bearer ".
Carried(request) ==
  (IF request.cookies \in {None, ""} THEN {} ELSE {request.cookies})
    \cup (IF request.authorization # <<>> /\ request.authorization[1] = "Bearer "
          THEN {request.authorization[2]} \ {""}
          ELSE {})

\* The stored sessions issued with a token.
SessionsOf(token) ==
  {k \in DOMAIN user_sessions : user_sessions[k].session_token = token}

\* The requests of an operation that a step takes on from a position.
Resumed(op, pc) ==
  {r \in DOMAIN reqs : /\ reqs[r].op = op /\ reqs[r].pc = pc
                       /\ r \in DOMAIN reqs' /\ reqs'[r].pc # pc}

\* C23: a request to an authenticated operation that carries no token is
\* answered 401 at once; the session is looked up by a token the request
\* carries, and a request whose tokens the session store does not know, or
\* whose session has an expiry in the past, is answered 401; a 401 is
\* given for one of these reasons (or a session without user), returns
\* nothing and leaves assessments, registers, documents, users and
\* sessions as they were; a request that passes is handed on as the user
\* the session was issued for, and a handler starts only for such a user;
\* the expiry of a session is the time of its issuance plus SessionDays.
C23_StepSession ==
  /\ \A q \in Started :
       q.op = "get_current_user" =>
         /\ UNCHANGED <<health_checks, risk_registers, documents, users,
                        user_sessions, uuids>>
         /\ q.response = <<>>
         /\ Carried(q.request) = {} <=> q.status_code = 401
         /\ q.status_code = 401 <=> q.pc = "done"
         /\ q.pc # "done" =>
              /\ (\A t \in Carried(q.request) : SessionsOf(t) = {})
                   => q.session_doc = <<>>
              /\ q.session_doc # <<>> =>
                   \E t \in Carried(q.request) :
                     \E k \in SessionsOf(t) : q.session_doc[1] = user_sessions[k]
              /\ \A t \in Carried(q.request) :
                   (Carried(q.request) = {t} /\ SessionsOf(t) # {})
                     => q.session_doc # <<>>
  /\ \A r \in Resumed("get_current_user", "find_one") :
       LET session_doc == reqs[r].session_doc
           q == reqs'[r]
       IN  /\ UNCHANGED <<health_checks, risk_registers, documents, users,
                          user_sessions, uuids>>
           /\ session_doc = <<>> => q.status_code = 401
           /\ (session_doc # <<>> /\ session_doc[1].expires_at < now)
                => q.status_code = 401
           /\ q.status_code = 401 =>
                /\ q.pc = "done" /\ q.response = <<>>
                /\ \/ session_doc = <<>>
                   \/ session_doc[1].expires_at < now
                   \/ session_doc[1].user_id \notin DOMAIN users
           /\ q.status_code # 401 =>
                /\ q.pc = "return"
                /\ q.user_id = session_doc[1].user_id
                /\ q.response[1].user_id = session_doc[1].user_id
  /\ \A r \in Resumed("get_current_user", "return") :
       /\ reqs'[r].status_code = 200
       /\ reqs'[r].response[1].user_id = reqs[r].session_doc[1].user_id
  /\ \A q \in Started :
       q.op = "upload" =>
         \E r \in DOMAIN reqs :
           /\ reqs[r].op = "get_current_user" /\ reqs[r].endpoint = q.op
           /\ reqs[r].pc = "return"
           /\ reqs[r].session_doc[1].user_id = q.user_id
  /\ \A r \in Resumed("create_session", "delete_many") :
       reqs'[r].expires_at = now + SessionDays
  /\ \A r \in Resumed("create_session", "insert_session") :
       /\ Len(user_sessions') = Len(user_sessions) + 1
       /\ user_sessions'[Len(user_sessions')].expires_at = reqs[r].expires_at
       /\ user_sessions'[Len(user_sessions')].session_token = reqs[r].session_token
       /\ user_sessions'[Len(user_sessions')].user_id = reqs[r].user_id

C23_SessionChecked == [][C23_StepSession]_vars

\* A token in the Authorization header was accepted, a token issued at
\* login was refused after its seven days, and an upload with a forged
\* cookie was refused.
C23_Witness ==
  \E r1, r2, r3 \in DOMAIN reqs :
    /\ r1 < r2
    /\ reqs[r1].op = "get_current_user" /\ reqs[r1].endpoint = "me"
    /\ reqs[r1].status_code = 200
    /\ reqs[r1].request.cookies = None
    /\ reqs[r2].op = "get_current_user" /\ reqs[r2].endpoint = "me"
    /\ reqs[r2].status_code = 401
    /\ reqs[r2].detail = "Session expired"
    /\ Carried(reqs[r2].request) = Carried(reqs[r1].request)
    /\ reqs[r3].op = "get_current_user" /\ reqs[r3].endpoint = "upload"
    /\ reqs[r3].status_code = 401
    /\ reqs[r3].detail = "Invalid session"
    /\ documents = <<>>

\* C25: after a logout request that carried a token, in the cookie or in
\* the Authorization header, a later request carrying that token is
\* answered 401.
C25_LogoutRevokes ==
  \A r1, r2 \in DOMAIN reqs :
    (/\ r1 < r2
     /\ reqs[r1].op = "logout"
     /\ reqs[r2].op = "get_current_user"
     /\ Carried(reqs[r1].request) # {}
     /\ Carried(reqs[r2].request) = Carried(reqs[r1].request)
     /\ reqs[r2].pc # "find_one")
      => reqs[r2].status_code = 401

(***************************************************************************)
(* The register between two generate calls: user_a's generate requests     *)
(* run one at a time and with no update in flight, and between them        *)
(* user_a's update requests run concurrently with each other.              *)
(***************************************************************************)
InFlight(op) == \E r \in DOMAIN reqs : reqs[r].op = op /\ reqs[r].pc # "done"

NextBetween ==
  \/ /\ Idle
     /\ \E data \in ConcurrentGenerateInputs : GenerateDelete("user_a", data)
  \/ \E r \in DOMAIN reqs : GenerateInsert(r)
  \/ \E r \in DOMAIN reqs : GenerateProfile(r)
  \/ /\ ~InFlight("generate")
     /\ \E risk_id \in RiskIdInputs("user_a"), update \in UpdateInputs :
          UpdateFind("user_a", risk_id, update)
  \/ \E r \in DOMAIN reqs : UpdateSave(r)

SpecBetween == Init /\ [][NextBetween]_vars

\* The risk ids of a register, in their order.
RiskIdSeq(risk_register) ==
  [i \in DOMAIN risk_register.risks |-> risk_register.risks[i].risk_id]

\* C24: a step of an update request, whether it answers 404, reads the
\* register or writes it, and whatever other update requests are in
\* flight, leaves the stored registers with the same risk_ids in the same
\* order and the same template fields; only generate changes them.
C24_StepKeepsRisks ==
  ((\E q \in Started : q.op = "update") \/ Saved # {}) =>
    /\ DOMAIN risk_registers' = DOMAIN risk_registers
    /\ \A k \in DOMAIN risk_registers :
         /\ risk_registers'[k].id = risk_registers[k].id
         /\ risk_registers'[k].user_id = risk_registers[k].user_id
         /\ RiskIdSeq(risk_registers'[k]) = RiskIdSeq(risk_registers[k])
         /\ TemplateFields(risk_registers'[k].risks)
              = TemplateFields(risk_registers[k].risks)

C24_RisksOnlyReplaced == [][C24_StepKeepsRisks]_vars

\* Two update requests that read the same register, each before the other
\* wrote, have both written it.
C24_Witness ==
  \E r1, r2 \in DOMAIN reqs :
    /\ r1 # r2
    /\ reqs[r1].op = "update" /\ reqs[r2].op = "update"
    /\ reqs[r1].status_code = 200 /\ reqs[r2].status_code = 200
    /\ reqs[r1].data.risk_id # reqs[r2].data.risk_id
    /\ \A i \in DOMAIN reqs[r1].risk_register[1].risks :
         reqs[r1].risk_register[1].risks[i].risk_id = reqs[r2].data.risk_id
           => reqs[r1].risk_register[1].risks[i].status = "identified"
    /\ \A i \in DOMAIN reqs[r2].risk_register[1].risks :
         reqs[r2].risk_register[1].risks[i].risk_id = reqs[r1].data.risk_id
           => reqs[r2].risk_register[1].risks[i].status = "identified"
    /\ \E k \in DOMAIN risk_registers : Len(risk_registers[k].risks) > 1

\* C26: when two update requests of a subject for two different risks of
\* the same register have both been answered 200, and no other request
\* names these risks, the stored register shows the status each of them
\* sent.
C26_BothTakeEffect ==
  \A r1, r2 \in DOMAIN reqs :
    (/\ r1 # r2
     /\ reqs[r1].op = "update" /\ reqs[r2].op = "update"
     /\ reqs[r1].user_id = reqs[r2].user_id
     /\ reqs[r1].status_code = 200 /\ reqs[r2].status_code = 200
     /\ reqs[r1].data.risk_id # reqs[r2].data.risk_id
     /\ reqs[r1].risk_register[1].id = reqs[r2].risk_register[1].id
     /\ \A r3 \in DOMAIN reqs \ {r1, r2} :
          reqs[r3].op = "update" =>
            reqs[r3].data.risk_id \notin {reqs[r1].data.risk_id, reqs[r2].data.risk_id})
      => \A k \in matching(risk_registers, reqs[r1].user_id) :
           risk_registers[k].id = reqs[r1].risk_register[1].id =>
             \A i \in DOMAIN risk_registers[k].risks :
               /\ risk_registers[k].risks[i].risk_id = reqs[r1].data.risk_id
                    => risk_registers[k].risks[i].status = reqs[r1].data.status
               /\ risk_registers[k].risks[i].risk_id = reqs[r2].data.risk_id
                    => risk_registers[k].risks[i].status = reqs[r2].data.status

\* C27: every stored register holds the risks of the generate request that
\* built it, with that request's risk_ids in their order and the template
\* fields of its business type, whatever update requests ran meanwhile.
C27_OnlyOwnRisks ==
  \A k \in DOMAIN risk_registers :
    \A r \in Generates :
      reqs[r].risk_register[1].id = risk_registers[k].id =>
        /\ RiskIdSeq(risk_registers[k]) = RiskIdSeq(reqs[r].risk_register[1])
        /\ TemplateFields(risk_registers[k].risks)
             = TemplateFields(reqs[r].risk_register[1].risks)

\* A stored value is null: the analysis results that are not are records.
IsNull(value) == ToString(value) = ToString(None)

\* C28: a stored document has an analysis result exactly when its
\* analysis_status is completed.
C28_ResultIffCompleted ==
  \A k \in DOMAIN documents :
    ~IsNull(documents[k].analysis_result)
      <=> documents[k].analysis_status = "completed"

(***************************************************************************)
(* Risk ids of a superseded register.  user_a has generated a register     *)
(* before, and the client still holds its risk ids; user_a's generate      *)
(* requests run one at a time, update requests at any time.                *)
(***************************************************************************)
FirstRegister ==
  new_risk_register("user_a", [business_type |-> Retail, industry |-> None], 0, 0)

InitStale ==
  /\ catalog = ALL_QUESTIONS
  /\ health_checks = <<>>
  /\ risk_registers = <<FirstRegister>>
  /\ documents = <<>>
  /\ user_sessions = <<>>
  /\ users = [u \in Users |->
                IF u = "user_a"
                THEN [business_type |-> Str(Retail), industry |-> None]
                ELSE [business_type |-> None, industry |-> None]]
  /\ reqs = <<>>
  /\ uuids = Len(FirstRegister.risks) + 1
  /\ now = 0

StaleRiskIds == {FirstRegister.risks[i].risk_id : i \in {1, 2}}

NextStale ==
  \/ /\ ~InFlight("generate")
     /\ \E data \in ConcurrentGenerateInputs : GenerateDelete("user_a", data)
  \/ \E r \in DOMAIN reqs : GenerateInsert(r)
  \/ \E r \in DOMAIN reqs : GenerateProfile(r)
  \/ \E risk_id \in StaleRiskIds \cup KnownRiskIds("user_a"), update \in UpdateInputs :
       UpdateFind("user_a", risk_id, update)
  \/ \E r \in DOMAIN reqs : UpdateSave(r)

SpecStale == InitStale /\ [][NextStale]_vars

\* The risk ids issued by registers of a subject that a completed generate
\* request has superseded.
SupersededRiskIds(user_id) ==
  (IF user_id = "user_a" /\ risk_registers # <<>>
      /\ risk_registers[1].id # FirstRegister.id /\ DoneGenerates(user_id) # {}
   THEN RiskIds(FirstRegister) ELSE {})
    \cup UNION {RiskIds(reqs[g].risk_register[1]) :
                  g \in {g1 \in DoneGenerates(user_id) :
                           \E g2 \in DoneGenerates(user_id) : g1 < g2}}

\* C30: an update request that names a risk_id issued by a register which a
\* completed generate request of the subject has superseded is answered
\* 404 "Risk not found" and writes nothing.
C30_StepStaleRiskId ==
  \A q \in Started :
    (q.op = "update" /\ q.data.risk_id \in SupersededRiskIds(q.user_id)) =>
      /\ q.pc = "done"
      /\ q.status_code = 404
      /\ q.detail = "Risk not found"
      /\ risk_registers' = risk_registers

C30_StaleRiskIdNotFound == [][C30_StepStaleRiskId]_vars

(***************************************************************************)
(* Two subjects.  user_b has submitted a health check, generated a         *)
(* register and uploaded a document; user_a then uses every operation,     *)
(* with its own ids and with user_b's, while user_b updates a risk.        *)
(***************************************************************************)
(* GET /risk-register: find_one({"user_id": ...}), None without a register. *)
GetRiskRegister(user_id) ==
  /\ Len(reqs) < MaxCalls
  /\ IF matching(risk_registers, user_id) = {}
     THEN reqs' = Append(reqs, Request("get_risk_register", user_id, "done", <<>>,
                                       <<>>, 200, ""))
     ELSE \E k \in matching(risk_registers, user_id) :
            reqs' = Append(reqs, Request("get_risk_register", user_id, "done", <<>>,
                                         <<risk_registers[k]>>, 200, ""))
  /\ UNCHANGED <<user_sessions, documents, catalog, health_checks, risk_registers, users, uuids, now>>

(* GET /documents/{document_id}: find_one({"id": ..., "user_id": ...})     *)
(* without the content, 404 without a document.                            *)
GetDocument(user_id, document_id) ==
  /\ Len(reqs) < MaxCalls
  /\ LET hits == matching_documents(documents, document_id, user_id)
         data == [document_id |-> document_id]
     IN  IF hits = {}
         THEN reqs' = Append(reqs,
                DocumentRequest("get_document", user_id, "done", data, <<>>, <<>>, 404,
                                "Document not found", <<>>))
         ELSE reqs' = Append(reqs,
                DocumentRequest("get_document", user_id, "done", data, <<>>, <<>>, 200,
                                "", <<without_content(documents[first_of(hits)])>>))
  /\ UNCHANGED <<user_sessions, documents, catalog, health_checks, risk_registers, users, uuids, now>>

(* {k: v for k, v in profile.model_dump().items() if v is not None} *)
update_data(profile) ==
  [k \in {f \in DOMAIN profile : ToString(profile[f]) # ToString(None)} |-> profile[k]]

(* find_one({"user_id": user_id}) on db.users: <<>> for None. *)
find_user(collection, user_id) ==
  IF user_id \in DOMAIN collection
  THEN <<[user_id |-> user_id] @@ collection[user_id]>>
  ELSE <<>>

(* PUT /users/profile, up to its first store call: with a field to set,    *)
(* db.users.update_one({"user_id": ...}, {"$set": update_data}); with      *)
(* none, the find_one whose result is returned.                            *)
UpdateProfile(user_id, profile) ==
  /\ Len(reqs) < MaxCalls
  /\ LET request(pc, status_code, response) ==
           [op          |-> "update_profile",
            user_id     |-> user_id,
            pc          |-> pc,
            data        |-> profile,
            status_code |-> status_code,
            response    |-> response]
     IN  IF DOMAIN update_data(profile) # {}
         THEN /\ users' = [u \in DOMAIN users |->
                             IF u = user_id THEN update_data(profile) @@ users[u]
                             ELSE users[u]]
              /\ reqs' = Append(reqs, request("find_one", 0, <<>>))
         ELSE /\ users' = users
              /\ reqs' = Append(reqs, request("done", 200, find_user(users, user_id)))
  /\ UNCHANGED <<user_sessions, documents, catalog, health_checks, risk_registers, uuids, now>>

(* db.users.find_one({"user_id": ...}), which is returned. *)
UpdateProfileFind(r) ==
  /\ reqs[r].op = "update_profile" /\ reqs[r].pc = "find_one"
  /\ reqs' = [reqs EXCEPT ![r].pc = "done",
                          ![r].status_code = 200,
                          ![r].response = find_user(users, reqs[r].user_id)]
  /\ UNCHANGED <<user_sessions, documents, catalog, health_checks, risk_registers, users, uuids, now>>

(* The profiles sent: some fields set, or none. *)
ProfileBodies ==
  {[company_name |-> "Acme Ltd", business_type |-> None,
    employee_count |-> 12, industry |-> "Retail"],
   [company_name |-> None, business_type |-> None,
    employee_count |-> None, industry |-> None]}

(* What user_b has stored: the results of one submit, one generate and one *)
(* upload, in this order.                                                  *)
HealthCheckOfB ==
  submit_health_check(ALL_QUESTIONS, "user_b", Bulk(ALL_QUESTIONS, 3, FALSE), uuid4(1), 0)

RegisterOfB == new_risk_register("user_b", RetailBody, 1, 0)

DocumentOfB ==
  new_document("user_b", PolicyFile, uuid4(Len(RegisterOfB.risks) + 3), 0)

InitIsolation ==
  /\ catalog = ALL_QUESTIONS
  /\ health_checks = <<HealthCheckOfB>>
  /\ risk_registers = <<RegisterOfB>>
  /\ documents = <<DocumentOfB>>
  /\ user_sessions = <<>>
  /\ users = [u \in Users |->
                IF u = "user_b"
                THEN [business_type |-> Str(Retail), industry |-> None]
                ELSE [business_type |-> None, industry |-> None]]
  /\ reqs = <<>>
  /\ uuids = Len(RegisterOfB.risks) + 3
  /\ now = 1

(* The ids user_a sends: its own and user_b's. *)
IsolationRiskIds ==
  KnownRiskIds("user_a") \cup {RegisterOfB.risks[1].risk_id}

IsolationDocumentIds == (DocumentIdInputs \ {"no-such-document"}) \cup {DocumentOfB.id}

Serving(user_id) ==
  \E r \in DOMAIN reqs : reqs[r].user_id = user_id /\ reqs[r].pc # "done"

(* user_a sends a request when its last one is answered; user_b's update   *)
(* runs at any time, also between the store calls of a request of user_a.  *)
NextIsolation ==
  \/ /\ ~Serving("user_a")
     /\ Len(health_checks) < MaxSubmits
     /\ Submit("user_a", Bulk(ALL_QUESTIONS, 3, FALSE))
  \/ /\ ~Serving("user_a")
     /\ GenerateDelete("user_a", RetailBody)
  \/ \E r \in DOMAIN reqs : GenerateInsert(r)
  \/ \E r \in DOMAIN reqs : GenerateProfile(r)
  \/ /\ ~Serving("user_a")
     /\ \E risk_id \in IsolationRiskIds :
          UpdateFind("user_a", risk_id, [status |-> "resolved", notes |-> "Done"])
  \/ UpdateFind("user_b", RegisterOfB.risks[1].risk_id,
                [status |-> "mitigating", notes |-> None])
  \/ \E r \in DOMAIN reqs : UpdateSave(r)
  \/ /\ ~Serving("user_a")
     /\ Upload("user_a", PolicyFile)
  \/ /\ ~Serving("user_a")
     /\ \E document_id \in IsolationDocumentIds : AnalyzeFind("user_a", document_id)
  \/ \E r \in DOMAIN reqs :
       \E outcome \in {o \in AnalyzerOutcomes :
                         \/ o.kind = "raise" /\ o.error = "Connection error."
                         \/ o.kind = "reply"
                              /\ o.content = "{\"overall_assessment\": \"Adequate\"}"} :
         AnalyzeSave(r, outcome)
  \/ \E r \in DOMAIN reqs : AnalyzeReturn(r)
  \/ /\ ~Serving("user_a")
     /\ \E document_id \in IsolationDocumentIds : Delete("user_a", document_id)
  \/ /\ ~Serving("user_a")
     /\ \E document_id \in IsolationDocumentIds : GetDocument("user_a", document_id)
  \/ /\ ~Serving("user_a")
     /\ GetRiskRegister("user_a")
  \/ /\ ~Serving("user_a")
     /\ Latest("user_a")
  \/ /\ ~Serving("user_a")
     /\ Dashboard("user_a")
  \/ \E r \in DOMAIN reqs : DashboardRegister(r)
  \/ \E r \in DOMAIN reqs : DashboardDocuments(r)
  \/ /\ ~Serving("user_a")
     /\ \E profile \in ProfileBodies : UpdateProfile("user_a", profile)
  \/ \E r \in DOMAIN reqs : UpdateProfileFind(r)

SpecIsolation == InitIsolation /\ [][NextIsolation]_vars

\* The documents of a collection that belong to a subject, in store order.
OfUser(collection, user_id) ==
  SelectSeq(collection, LAMBDA doc : doc.user_id = user_id)

\* The requests a step starts or advances.
Stepped ==
  Started \cup {reqs'[r] : r \in {n \in DOMAIN reqs : n \in DOMAIN reqs'
                                                     /\ reqs'[n] # reqs[n]}}

\* The subjects whose stored data a request has read into its locals or
\* returns in its answer.
SubjectsIn(q) ==
  LET of(docs) == {docs[i].user_id : i \in DOMAIN docs}
  IN  CASE q.op \in {"generate", "update", "get_risk_register"} -> of(q.risk_register)
        [] q.op = "latest" -> of(q.response)
        [] q.op = "dashboard" ->
             of(q.latest_health_check) \cup of(q.risk_register) \cup of(q.documents)
        [] q.op \in {"upload", "analyze"} -> of(q.document)
        [] q.op \in {"get_document", "update_profile"} -> of(q.response)
        [] OTHER -> {}

\* C29: a step taken for user_a, by any of its operations and with its own
\* ids or user_b's, leaves user_b's assessments, register, documents and
\* profile as they were, and what the request holds or returns is user_a's.
C29_StepIsolation ==
  LET A == "user_a"
      B == "user_b"
  IN  /\ (\A q \in Stepped : q.user_id = A) =>
           /\ OfUser(health_checks', B) = OfUser(health_checks, B)
           /\ OfUser(risk_registers', B) = OfUser(risk_registers, B)
           /\ OfUser(documents', B) = OfUser(documents, B)
           /\ users'[B] = users[B]
      /\ \A q \in Stepped : q.user_id = A => SubjectsIn(q) \subseteq {A}

C29_SubjectIsolation == [][C29_StepIsolation]_vars

\* user_a has generated a register, which set its profile, and has asked to
\* update a risk of user_b and to delete user_b's document, both answered
\* 404, and user_b's data is as it was.
C29_Witness ==
  /\ \E r \in DOMAIN reqs :
       /\ reqs[r].op = "update" /\ reqs[r].user_id = "user_a"
       /\ reqs[r].data.risk_id = RegisterOfB.risks[1].risk_id
       /\ reqs[r].status_code = 404 /\ reqs[r].detail = "Risk not found"
  /\ \E r \in DOMAIN reqs :
       /\ reqs[r].op = "delete" /\ reqs[r].user_id = "user_a"
       /\ reqs[r].data.document_id = DocumentOfB.id
       /\ reqs[r].status_code = 404
  /\ \E r \in DOMAIN reqs :
       reqs[r].op = "generate" /\ reqs[r].user_id = "user_a" /\ reqs[r].pc = "done"
  /\ OfUser(risk_registers, "user_b") = <<RegisterOfB>>
  /\ OfUser(documents, "user_b") = <<DocumentOfB>>
  /\ OfUser(health_checks, "user_b") = <<HealthCheckOfB>>
  /\ users["user_a"].business_type = Str(Retail)
  /\ users["user_b"] = [business_type |-> Str(Retail), industry |-> None]

====
